---- MODULE Spec2Model ----
(***************************************************************************)
(* cluster-hub plugin: the child-side TaskQueue (src/src/index.ts), the    *)
(* Hub uplink's send path (hub-client, src/unnamed/part_001) and the       *)
(* sent-task store (src/src/store.ts).                                     *)
(*                                                                         *)
(* A QueuedTask object is an index into `tasks` (objects are numbered in   *)
(* order of receipt); the pools hold these indices.  `dispatching` and     *)
(* `inflight` are Maps keyed by taskId, as in the source, so two objects   *)
(* with the same taskId share one key.  `pc` is the position of each       *)
(* object's startTask continuation.  `wsLog` is the history of sendWS      *)
(* calls: field tx says whether the frame went onto the socket, field inst *)
(* which QueuedTask object the call was made for.  `limits` is the set of  *)
(* values maxConcurrent had when a task frame was enqueued, and            *)
(* `sessionsDeleted` the objects whose agent session was deleted.          *)
(* `selfTaskMode` is the configuration field of that name and              *)
(* `sendReplies` the replies of hub.task.send.  The variables of the       *)
(* connection life cycle are described in the HubClient section.           *)
(* `fanout` counts the broadcast() calls per task or node and keeps the    *)
(* latest payload.  `received` is the content of the received-task store   *)
(* and `cliRuns` the local runs the CLI command `hub send` is awaiting.    *)
(* `now` is the reading of Date.now() and `lastClear` the latest           *)
(* hub.task.clear call with its cutoff and its reply.                      *)
(* The variables of the lifecycle broadcasts, of the chat relay, of the    *)
(* node's identity and of the save timers and files are described in       *)
(* their sections.                                                         *)
(***************************************************************************)
EXTENDS Integers, Sequences, FiniteSets, TLC

VARIABLES maxConcurrent, queue, dispatching, inflight, completed, tasks, pc,
          sessionsDeleted, limits, connected, wsLog,
          stored, nextUuid, localRuns, sentLog, inboundCount,
          selfTaskMode, sendReplies,
          socks, ws, intentionallyClosed, reconnectTimer, timeouts,
          heartbeatTimer, intervals, native, importing, clientLog, ops,
          fanout,
          changeSeq, nodesCache, nodeCalls, nodeEvents, broadcasts, fetches, fetchLog,
          chatPc, chatConfig, agentHistory, agentAdded, lastSentCount, refreshTimer,
          ticks, finalSeen, chatLog,
          config, configFile, hubNodes, lastReply, verbs,
          received, cliRuns,
          now, saveTimer, tasksFile, lastClear, eventTimer, eventsFile,
          chats, chatTimers, chatFiles, chatOps, stops

queueVars == <<maxConcurrent, queue, dispatching, inflight, completed, tasks, pc,
               sessionsDeleted, limits>>
storeVars == <<stored, nextUuid, localRuns, sentLog, inboundCount, saveTimer>>
rpcVars == <<selfTaskMode, sendReplies>>
clientVars == <<socks, ws, intentionallyClosed, reconnectTimer, timeouts,
                heartbeatTimer, intervals, native, importing, clientLog, ops>>
fanVars == <<fanout>>
eventVars == <<changeSeq, nodesCache, nodeCalls, nodeEvents, broadcasts, fetches, fetchLog,
               eventTimer>>
chatVars == <<chatPc, chatConfig, agentHistory, agentAdded, lastSentCount, refreshTimer,
              ticks, finalSeen, chatLog>>
identityVars == <<config, configFile, hubNodes, lastReply, verbs>>
diskVars == <<now, tasksFile, lastClear, eventsFile, chats, chatTimers, chatFiles, chatOps,
              stops>>
extVars == <<eventVars, chatVars, identityVars, received, cliRuns, diskVars>>
vars == <<maxConcurrent, queue, dispatching, inflight, completed, tasks, pc,
          sessionsDeleted, limits, connected, wsLog,
          stored, nextUuid, localRuns, sentLog, inboundCount,
          selfTaskMode, sendReplies,
          socks, ws, intentionallyClosed, reconnectTimer, timeouts,
          heartbeatTimer, intervals, native, importing, clientLog, ops,
          fanout,
          changeSeq, nodesCache, nodeCalls, nodeEvents, broadcasts, fetches, fetchLog,
          chatPc, chatConfig, agentHistory, agentAdded, lastSentCount, refreshTimer,
          ticks, finalSeen, chatLog,
          config, configFile, hubNodes, lastReply, verbs,
          received, cliRuns,
          now, saveTimer, tasksFile, lastClear, eventTimer, eventsFile,
          chats, chatTimers, chatFiles, chatOps, stops>>

----------------------------------------------------------------------------
(* Bounds of the model *)

\* inbound task frames handled in one run
MaxTasks == 2
\* outbound tasks sent in one run
MaxSent == 2
\* inbound task_ack / task_status / result frames handled in one run
MaxInbound == 2

\* explicit connect() / disconnect() calls and network failures in one run
MaxOps == 3
\* frames handed to sendWS by the heartbeat and the application in one run
MaxFrames == 2
\* broadcast frames handled in one run
MaxBroadcasts == 3
\* GET /api/nodes calls of fetchNodes in flight at one time
MaxFetches == 1
\* messages the agent appends to its session in one chat run
MaxAgentMsgs == 3
\* harvest ticks of one chat run awaiting chat.history at one time
MaxTicks == 2
\* register / unregister / reparent / register.child calls in one run
MaxVerbs == 3
\* hub.task.clear calls in one run
MaxClears == 2
\* the latest reading of Date.now()
MaxClock == 2
\* chat verbs and chat_reply frames handled in one run
MaxChatOps == 2
\* service stops in one run
MaxStops == 1

\* taskIds the Hub puts on inbound task frames, in order of first use
TaskIds == <<"T1", "T2", "T3", "T4">>
\* the sender of each inbound taskId
Origin == [t \in {"T1", "T2", "T3", "T4"} |-> IF t = "T2" THEN "n2" ELSE "n1"]
\* the values randomUUID() returns to sendTaskAndTrack, in call order
Uuids == <<"S1", "S2", "S3", "S4">>
\* this node's nodeId, and the nodeIds task.send is called with
SelfNodeId == "n0"
Targets == {"n0", "n2"}
\* payload.config.maxConcurrent of an inbound task frame; 0 stands for absent
ConfigInputs == {0, 1, 2}
\* the nodes lifecycle broadcasts are about, and the node lists the Hub serves
PeerIds == {"n1", "n2"}
NodeLists == {{}, {"n1"}, {"n1", "n2"}}
\* the tokens the Hub issues, in order, and the child node registered here
Tokens == <<"t1", "t2", "t3", "t4", "t5">>
ChildId == "n2"
\* messages the hub-chat session holds from earlier turns when a chat arrives
EarlierTurns == {0, 27}

----------------------------------------------------------------------------
(* Program constants *)

DefaultMaxConcurrent == 3
MinConcurrent == 1
MaxConcurrentCap == 10
CompletedCap == 50
CancelledError == "任务已被取消"

Min(a, b) == IF a < b THEN a ELSE b
Max(a, b) == IF a > b THEN a ELSE b

\* Map helpers (Map.set / Map.delete / Map.has)
MapSet(m, k, v) == [x \in (DOMAIN m) \cup {k} |-> IF x = k THEN v ELSE m[x]]
MapDelete(m, k) == [x \in (DOMAIN m) \ {k} |-> m[x]]
MapHas(m, k) == k \in DOMAIN m
EmptyMap == [x \in {} |-> 0]

SeqRemoveAt(s, k) == SubSeq(s, 1, k - 1) \o SubSeq(s, k + 1, Len(s))
Range(s) == {s[k] : k \in DOMAIN s}

----------------------------------------------------------------------------
(* Hub uplink: the send path *)

Frame(type, inst, id, to) ==
    [type |-> type, inst |-> inst, id |-> id, to |-> to, status |-> "-",
     position |-> 0, success |-> FALSE, error |-> "-", tx |-> FALSE]

\* HubClient.sendWS: the frame goes onto the socket only while connected.
\* The call is logged under the QueuedTask object it was made for.
SendWS(log, conn, frame) ==
    [log EXCEPT ![frame.inst] = Append(log[frame.inst], [frame EXCEPT !.tx = conn])]

\* HubClient.sendResult
SendResult(log, conn, inst, taskId, toNodeId, success, error) ==
    SendWS(log, conn,
           [Frame("result", inst, taskId, toNodeId)
              EXCEPT !.success = success, !.error = error])

\* ws.onopen / ws.onclose
SocketOpen ==
    /\ ~connected
    /\ connected' = TRUE
    /\ UNCHANGED <<extVars, fanVars, queueVars, wsLog, storeVars, rpcVars, clientVars>>

SocketClose ==
    /\ connected
    /\ connected' = FALSE
    /\ UNCHANGED <<extVars, fanVars, queueVars, wsLog, storeVars, rpcVars, clientVars>>

----------------------------------------------------------------------------
(* TaskQueue *)

\* the queue's mutable state as one value, threaded through the methods
QState ==
    [queue |-> queue, dispatching |-> dispatching, inflight |-> inflight,
     completed |-> completed, tasks |-> tasks, pc |-> pc, wsLog |-> wsLog]

\* TaskQueue.setMaxConcurrent
SetMaxConcurrent(n) == Max(MinConcurrent, Min(n, MaxConcurrentCap))

\* a slot count that also counts the inflight pool
ActiveSlotsCountsInflight(q) ==
    Cardinality(DOMAIN q.dispatching) + Cardinality(DOMAIN q.inflight)

\* TaskQueue.activeSlots
ActiveSlots(q) == Cardinality(DOMAIN q.dispatching)

\* a startTask that sends no task_ack
StartTaskSilent(q, i, conn) ==
    [q EXCEPT
       !.tasks[i].status = "running",
       !.dispatching = MapSet(q.dispatching, q.tasks[i].taskId, i),
       !.pc[i] = "dispatch"]

\* TaskQueue.startTask up to its first await
StartTask(q, i, conn) ==
    [q EXCEPT
       !.tasks[i].status = "running",
       !.dispatching = MapSet(q.dispatching, q.tasks[i].taskId, i),
       !.pc[i] = "dispatch",
       !.wsLog = SendWS(q.wsLog, conn,
                        [Frame("task_ack", i, q.tasks[i].taskId, q.tasks[i].fromNodeId)
                           EXCEPT !.status = "running"])]

\* a dequeue that starts nothing
DequeueNever(q, limit, conn) == q
\* TaskQueue.dequeue
RECURSIVE Dequeue(_, _, _)
Dequeue(q, limit, conn) ==
    IF Len(q.queue) > 0 /\ ActiveSlots(q) < limit
    THEN Dequeue(StartTask([q EXCEPT !.queue = Tail(q.queue)], Head(q.queue), conn),
                 limit, conn)
    ELSE q

\* TaskQueue.startTask, from `task.completedAt = ...` to its end
Finalize(q, i, limit, conn) ==
    LET unshifted == <<i>> \o q.completed
        ring == IF Len(unshifted) > CompletedCap
                THEN SubSeq(unshifted, 1, Len(unshifted) - 1) ELSE unshifted
        q1 == [q EXCEPT
                 !.inflight = MapDelete(q.inflight, q.tasks[i].taskId),
                 !.completed = ring,
                 !.pc[i] = "done",
                 !.wsLog = SendResult(q.wsLog, conn, i, q.tasks[i].taskId,
                                      q.tasks[i].fromNodeId,
                                      q.tasks[i].status = "completed",
                                      IF q.tasks[i].status = "completed" THEN "-"
                                      ELSE "error")]
    IN Dequeue(q1, limit, conn)

\* an enqueue that reports the queue length before the push
EnqueueZeroBased(q, limit, conn, taskId, fromNodeId) ==
    LET i == Len(q.tasks) + 1
        task == [taskId |-> taskId, fromNodeId |-> fromNodeId, status |-> "queued",
                 sessionKey |-> FALSE]
        q1 == [q EXCEPT !.tasks = Append(q.tasks, task), !.pc = Append(q.pc, "none"),
                        !.wsLog = Append(q.wsLog, <<>>)]
    IN IF ActiveSlots(q1) < limit
       THEN StartTask(q1, i, conn)
       ELSE [q1 EXCEPT
               !.queue = Append(q1.queue, i),
               !.wsLog = SendWS(q1.wsLog, conn,
                                [Frame("task_ack", i, taskId, fromNodeId)
                                   EXCEPT !.status = "queued",
                                          !.position = Len(q1.queue)])]

\* TaskQueue.enqueue
Enqueue(q, limit, conn, taskId, fromNodeId) ==
    LET i == Len(q.tasks) + 1
        task == [taskId |-> taskId, fromNodeId |-> fromNodeId, status |-> "queued",
                 sessionKey |-> FALSE]
        q1 == [q EXCEPT !.tasks = Append(q.tasks, task), !.pc = Append(q.pc, "none"),
                        !.wsLog = Append(q.wsLog, <<>>)]
    IN IF ActiveSlots(q1) < limit
       THEN StartTask(q1, i, conn)
       ELSE [q1 EXCEPT
               !.queue = Append(q1.queue, i),
               !.wsLog = SendWS(q1.wsLog, conn,
                                [Frame("task_ack", i, taskId, fromNodeId)
                                   EXCEPT !.status = "queued",
                                          !.position = Len(q1.queue) + 1])]

\* a startTask that keeps its dispatch slot while the agent runs
AfterDispatchHoldsSlot(q, i, limit, conn) ==
    LET q1 == [q EXCEPT
                 !.tasks[i].sessionKey = TRUE,
                 !.inflight = MapSet(q.inflight, q.tasks[i].taskId, i),
                 !.pc[i] = "wait"]
    IN Dequeue(q1, limit, conn)

\* startTask after dispatchTaskToAgent resolved
AfterDispatch(q, i, limit, conn) ==
    LET q1 == [q EXCEPT
                 !.tasks[i].sessionKey = TRUE,
                 !.dispatching = MapDelete(q.dispatching, q.tasks[i].taskId),
                 !.inflight = MapSet(q.inflight, q.tasks[i].taskId, i),
                 !.pc[i] = "wait"]
    IN Dequeue(q1, limit, conn)

\* startTask's catch block after dispatchTaskToAgent rejected, then the finalization
AfterDispatchFailure(q, i, limit, conn) ==
    Finalize([q EXCEPT
                !.tasks[i].status = "failed",
                !.dispatching = MapDelete(q.dispatching, q.tasks[i].taskId)],
             i, limit, conn)

\* startTask after waitAndCollectResult resolved, then the finalization
AfterWait(q, i, limit, conn, success) ==
    Finalize([q EXCEPT !.tasks[i].status = IF success THEN "completed" ELSE "failed"],
             i, limit, conn)

\* queue.findIndex(t => t.taskId === taskId); 0 when absent
QueueIndex(q, taskId) ==
    LET hits == {k \in DOMAIN q.queue : q.tasks[q.queue[k]].taskId = taskId}
    IN IF hits = {} THEN 0 ELSE CHOOSE k \in hits : \A m \in hits : k <= m

\* dispatching.get(taskId) || inflight.get(taskId); 0 when neither has it
RunningTask(q, taskId) ==
    IF MapHas(q.dispatching, taskId) THEN q.dispatching[taskId]
    ELSE IF MapHas(q.inflight, taskId) THEN q.inflight[taskId]
    ELSE 0

\* the value TaskQueue.cancel returns
CancelReturn(q, taskId) ==
    \/ QueueIndex(q, taskId) > 0
    \/ /\ RunningTask(q, taskId) > 0
       /\ q.tasks[RunningTask(q, taskId)].sessionKey

\* the sessions.delete TaskQueue.cancel fires: the QueuedTask whose session it names
CancelDeletes(q, taskId) ==
    IF QueueIndex(q, taskId) = 0 /\ RunningTask(q, taskId) > 0
       /\ q.tasks[RunningTask(q, taskId)].sessionKey
    THEN {RunningTask(q, taskId)} ELSE {}

\* a cancel that marks the waiting task but leaves it in the queue
CancelQueueKeepsTask(q, conn, taskId) ==
    LET k == QueueIndex(q, taskId) IN
    IF k > 0
    THEN LET i == q.queue[k] IN
         [q EXCEPT
            !.tasks[i].status = "cancelled",
            !.wsLog = SendResult(q.wsLog, conn, i, q.tasks[i].taskId,
                                 q.tasks[i].fromNodeId, FALSE, CancelledError)]
    ELSE q

\* TaskQueue.cancel: its effect on the queue and the socket
CancelQueue(q, conn, taskId) ==
    LET k == QueueIndex(q, taskId) IN
    IF k > 0
    THEN LET i == q.queue[k] IN
         [q EXCEPT
            !.queue = SeqRemoveAt(q.queue, k),
            !.tasks[i].status = "cancelled",
            !.wsLog = SendResult(q.wsLog, conn, i, q.tasks[i].taskId,
                                 q.tasks[i].fromNodeId, FALSE, CancelledError)]
    ELSE q

\* writes a queue state back to the variables
Commit(q) ==
    /\ queue' = q.queue
    /\ dispatching' = q.dispatching
    /\ inflight' = q.inflight
    /\ completed' = q.completed
    /\ tasks' = q.tasks
    /\ pc' = q.pc
    /\ wsLog' = q.wsLog

\* taskIds an inbound frame may carry: one already seen, or the next fresh one
InboundIds ==
    LET used == {tasks[k].taskId : k \in DOMAIN tasks}
        n == Cardinality(used)
    IN used \cup (IF n < Len(TaskIds) THEN {TaskIds[n + 1]} ELSE {})

\* handleIncomingTask: an inbound task frame, delivered on the open socket
HandleIncomingTask(taskId, cfg) ==
    /\ connected
    /\ LET limit == IF cfg # 0 THEN SetMaxConcurrent(cfg) ELSE maxConcurrent IN
       /\ maxConcurrent' = limit
       /\ limits' = limits \cup {limit}
       /\ Commit(Enqueue(QState, limit, connected, taskId, Origin[taskId]))
    /\ UNCHANGED <<extVars, fanVars, sessionsDeleted, connected, storeVars, rpcVars, clientVars>>

\* dispatchTaskToAgent returns {runId, sessionKey}
DispatchReturn(i) ==
    /\ pc[i] = "dispatch"
    /\ Commit(AfterDispatch(QState, i, maxConcurrent, connected))
    /\ UNCHANGED <<extVars, fanVars, maxConcurrent, sessionsDeleted, limits, connected, storeVars,
                 rpcVars, clientVars>>

\* dispatchTaskToAgent throws (Gateway RPC error or timeout)
DispatchFail(i) ==
    /\ pc[i] = "dispatch"
    /\ Commit(AfterDispatchFailure(QState, i, maxConcurrent, connected))
    /\ UNCHANGED <<extVars, fanVars, maxConcurrent, sessionsDeleted, limits, connected, storeVars,
                 rpcVars, clientVars>>

\* a wait that returns without deleting the agent session
WaitReturnKeepsSession(i, success) ==
    /\ pc[i] = "wait"
    /\ Commit(AfterWait(QState, i, maxConcurrent, connected, success))
    /\ UNCHANGED <<extVars, fanVars, maxConcurrent, sessionsDeleted, limits, connected, storeVars,
                   rpcVars, clientVars>>

\* waitAndCollectResult returns; it has fired sessions.delete on either path
WaitReturn(i, success) ==
    /\ pc[i] = "wait"
    /\ Commit(AfterWait(QState, i, maxConcurrent, connected, success))
    /\ sessionsDeleted' = sessionsDeleted \cup {i}
    /\ UNCHANGED <<extVars, fanVars, maxConcurrent, limits, connected, storeVars, rpcVars, clientVars>>

\* an inbound task_cancel frame: taskQueue.cancel(msg.id)
Cancel(taskId) ==
    /\ connected
    /\ Commit(CancelQueue(QState, connected, taskId))
    /\ sessionsDeleted' = sessionsDeleted \cup CancelDeletes(QState, taskId)
    /\ UNCHANGED <<extVars, fanVars, maxConcurrent, limits, connected, storeVars, rpcVars, clientVars>>

----------------------------------------------------------------------------
(* TaskStore: the sent-task store.  Of a StoredTask the model keeps taskId, *)
(* targetNodeId, source, status and completedAt (NotSet while undefined).   *)

MaxHistory == 200
SelfTaskMode == "local"
\* HubPluginConfig.selfTaskMode
SelfTaskModes == {"local", "hub"}
\* params.nodeId of a hub.task.send request that names no node
NoNodeId == ""
\* a config field that is undefined, and a parentId that is null
Undefined == ""
Null == "null"
AutoConnect == TRUE

ActiveStatuses == {"sent", "queued", "running"}
TerminalStatuses == {"completed", "failed", "cancelled", "timeout"}
Statuses == ActiveStatuses \cup TerminalStatuses

\* a completedAt that is undefined
NotSet == 0

\* TaskStore.scheduleSave with one more timer pending whatever the handle says
ScheduleSaveAgain(timer) == timer + 1

\* TaskStore.scheduleSave, on the number of save timers pending: none is armed
\* while the handle is set (the handle is cleared where its timer fires or is
\* cancelled)
ScheduleSave(timer) == IF timer > 0 THEN timer ELSE 1

\* TaskStore.findTask: the index of the first record with this taskId; 0 when absent
FindTask(st, taskId) ==
    LET hits == {k \in DOMAIN st : st[k].taskId = taskId}
    IN IF hits = {} THEN 0 ELSE CHOOSE k \in hits : \A m \in hits : k <= m

\* a trim that keeps every record
TrimKeepsAll(st) == st

\* TaskStore.trim
Trim(st) == IF Len(st) > MaxHistory THEN SubSeq(st, 1, MaxHistory) ELSE st

\* TaskStore.recordSent
RecordSent(st, taskId, targetNodeId, source) ==
    Trim(<<[taskId |-> taskId, targetNodeId |-> targetNodeId, source |-> source,
            status |-> "sent", completedAt |-> NotSet]>> \o st)

\* an updateStatus that puts the updated copy in front instead of updating in place
UpdateStatusCopies(st, taskId, status) ==
    LET k == FindTask(st, taskId)
    IN IF k = 0 THEN st ELSE <<[st[k] EXCEPT !.status = status]>> \o st

\* TaskStore.updateStatus with update = {status}
UpdateStatus(st, taskId, status) ==
    LET k == FindTask(st, taskId)
    IN IF k = 0 THEN st ELSE [st EXCEPT ![k].status = status]

\* TaskStore.updateStatus with update = {status: 'cancelled', completedAt}
UpdateCancelled(st, taskId) ==
    LET k == FindTask(st, taskId)
    IN IF k = 0 THEN st
       ELSE [st EXCEPT ![k].status = "cancelled", ![k].completedAt = now]

\* TaskStore.recordResult
RecordResult(st, taskId, success) ==
    LET k == FindTask(st, taskId)
    IN IF k = 0 THEN st
       ELSE [st EXCEPT ![k].status = IF success THEN "completed" ELSE "failed",
                       ![k].completedAt = now]

\* the scheduleSave of updateStatus / recordResult: only with a record found
TouchTask(st, taskId, timer) ==
    IF FindTask(st, taskId) > 0 THEN ScheduleSave(timer) ELSE timer

\* an isSelfNode that is never true
IsSelfNodeNever(nodeId) == FALSE

\* isSelfNode
IsSelfNode(nodeId) == nodeId = config.nodeId

\* sendWS from the sender side: logged in call order
SendOut(log, conn, frame) == Append(log, [frame EXCEPT !.tx = conn])

\* broadcast(event, payload): the call is counted under the taskId or nodeId
\* its payload is about, and the event and the status the payload carries
\* are kept for the latest call
Broadcast(log, event, id, status) ==
    MapSet(log, id, [n |-> IF MapHas(log, id) THEN log[id].n + 1 ELSE 1,
                     event |-> event, status |-> status])

\* broadcast('hub.task.update', {task}) for the record of taskId, when there is one
TaskUpdate(log, st, taskId) ==
    LET k == FindTask(st, taskId)
    IN IF k > 0 THEN Broadcast(log, "hub.task.update", taskId, st[k].status)
       ELSE log

\* sendTaskAndTrack
SendTaskAndTrack(nodeId) ==
    /\ nextUuid <= MaxSent
    /\ LET taskId == Uuids[nextUuid] IN
       IF IsSelfNode(nodeId) /\ selfTaskMode = "local"
       THEN /\ stored' = RecordSent(stored, taskId, nodeId, "local")
            /\ localRuns' = localRuns \cup {taskId}
            /\ sentLog' = sentLog
       ELSE /\ stored' = RecordSent(stored, taskId, nodeId, "remote")
            /\ localRuns' = localRuns
            /\ sentLog' = SendOut(sentLog, connected,
                                  Frame("task", 0, taskId, nodeId))
    /\ nextUuid' = nextUuid + 1
    /\ saveTimer' = ScheduleSave(saveTimer)
    /\ fanout' = TaskUpdate(fanout, stored', Uuids[nextUuid])
    /\ UNCHANGED <<extVars, queueVars, connected, wsLog, inboundCount, selfTaskMode, clientVars>>

\* executeTaskLocally(...).then / .catch of sendTaskAndTrack
LocalTaskDone(taskId, success) ==
    /\ taskId \in localRuns
    /\ localRuns' = localRuns \ {taskId}
    /\ stored' = RecordResult(stored, taskId, success)
    /\ saveTimer' = TouchTask(stored, taskId, saveTimer)
    /\ fanout' = TaskUpdate(fanout, stored', taskId)
    /\ UNCHANGED <<extVars, queueVars, connected, wsLog, nextUuid, sentLog, inboundCount,
                 rpcVars, clientVars>>

\* the CLI command `hub send <nodeId> <instruction>`: the local short cut
\* records the task and awaits the run; any other target goes through
\* sendTaskAndTrack
CliSend(nodeId) ==
    /\ config.nodeId # Undefined /\ config.token # Undefined
    /\ IF IsSelfNode(nodeId) /\ selfTaskMode = "local"
       THEN /\ nextUuid <= MaxSent
            /\ stored' = RecordSent(stored, Uuids[nextUuid], nodeId, "local")
            /\ cliRuns' = cliRuns \cup {Uuids[nextUuid]}
            /\ nextUuid' = nextUuid + 1
            /\ saveTimer' = ScheduleSave(saveTimer)
            /\ UNCHANGED <<eventVars, chatVars, identityVars, received, diskVars, fanout, queueVars,
                           connected, wsLog, localRuns, sentLog, inboundCount,
                           selfTaskMode, clientVars>>
       ELSE SendTaskAndTrack(nodeId)
    /\ UNCHANGED sendReplies

\* the CLI command after `await executeTaskLocally(...)`: taskStore.recordResult
CliLocalDone(taskId, success) ==
    /\ taskId \in cliRuns
    /\ cliRuns' = cliRuns \ {taskId}
    /\ stored' = RecordResult(stored, taskId, success)
    /\ saveTimer' = TouchTask(stored, taskId, saveTimer)
    /\ UNCHANGED <<eventVars, chatVars, identityVars, received, diskVars, fanout, queueVars,
                   connected, wsLog, nextUuid, localRuns, sentLog, inboundCount,
                   rpcVars, clientVars>>

\* handleTaskAck: an inbound task_ack or task_status frame
HandleTaskAck(taskId, status) ==
    /\ connected
    /\ stored' = UpdateStatus(stored, taskId, status)
    /\ saveTimer' = TouchTask(stored, taskId, saveTimer)
    /\ inboundCount' = inboundCount + 1
    /\ fanout' = TaskUpdate(fanout, stored', taskId)
    /\ UNCHANGED <<extVars, queueVars, connected, wsLog, nextUuid, localRuns, sentLog,
                 rpcVars, clientVars>>

\* handleTaskResult: an inbound result frame
HandleTaskResult(taskId, success) ==
    /\ connected
    /\ stored' = RecordResult(stored, taskId, success)
    /\ saveTimer' = TouchTask(stored, taskId, saveTimer)
    /\ inboundCount' = inboundCount + 1
    /\ fanout' = TaskUpdate(fanout, stored', taskId)
    /\ UNCHANGED <<extVars, queueVars, connected, wsLog, nextUuid, localRuns, sentLog,
                 rpcVars, clientVars>>

\* params.before left out
NoBefore == 0

\* the statuses clearCompleted removes
ClearedStatuses == {"completed", "failed", "cancelled"}

\* a clearCompleted that removes every task completed by the cutoff, whatever
\* its status
ClearCompletedAnyStatus(st, cutoff) ==
    LET Keep(t) == t.completedAt > cutoff IN SelectSeq(st, Keep)

\* TaskStore.clearCompleted: the tasks it keeps
ClearCompleted(st, cutoff) ==
    LET Keep(t) == IF t.status \in ClearedStatuses THEN t.completedAt > cutoff ELSE TRUE
    IN SelectSeq(st, Keep)

\* hub.task.clear: clearCompleted(params.before) with cutoff = before || Date.now(),
\* scheduleSave when something was removed, respond(true, {cleared})
HubTaskClear(before) ==
    LET cutoff == IF before # NoBefore THEN before ELSE now
        cleared == Len(stored) - Len(ClearCompleted(stored, cutoff))
    IN /\ lastClear.calls < MaxClears
       /\ stored' = ClearCompleted(stored, cutoff)
       /\ saveTimer' = IF cleared > 0 THEN ScheduleSave(saveTimer) ELSE saveTimer
       /\ lastClear' = [calls |-> lastClear.calls + 1, cutoff |-> cutoff,
                        cleared |-> cleared]
       /\ UNCHANGED <<eventVars, chatVars, identityVars, received, cliRuns, now, tasksFile,
                      eventsFile, chats, chatTimers, chatFiles, chatOps, stops, fanout,
                      queueVars,
                      connected, wsLog, nextUuid, localRuns, sentLog, inboundCount,
                      rpcVars, clientVars>>

\* Date.now() moves on
Tick ==
    /\ now < MaxClock
    /\ now' = now + 1
    /\ UNCHANGED <<eventVars, chatVars, identityVars, received, cliRuns, tasksFile,
                   lastClear, eventsFile, chats, chatTimers, chatFiles, chatOps, stops,
                   fanVars,
                   queueVars, connected, wsLog, storeVars, rpcVars, clientVars>>

\* hub.task.cancel: the test that guards the remote cancel
RemoteCancelApplies(st, taskId) ==
    LET k == FindTask(st, taskId)
    IN k > 0 /\ st[k].source = "remote" /\ st[k].status \in ActiveStatuses

\* hub.task.send: the reply is respond(ok, {taskId})
HubTaskSend(nodeId) ==
    /\ IF nodeId = NoNodeId
       THEN /\ sendReplies' = Append(sendReplies, [ok |-> FALSE, taskId |-> "-"])
            /\ UNCHANGED <<extVars, fanout, queueVars, connected, wsLog, storeVars,
                           selfTaskMode, clientVars>>
       ELSE /\ SendTaskAndTrack(nodeId)
            /\ sendReplies' = Append(sendReplies, [ok |-> TRUE, taskId |-> Uuids[nextUuid]])

\* the fields of the configuration that make up the node's identity
IdentityFields == {"nodeId", "token", "clusterId", "parentId"}

\* persistConfig: the patch holds nodeId, token and clusterId when truthy and
\* parentId when not undefined; deepMerge assigns the fields of the patch
PersistConfig(file, cfg) ==
    [f \in IdentityFields |-> IF cfg[f] # Undefined THEN cfg[f] ELSE file[f]]

\* Object.assign(this.config, patch)
UpdateConfig(cfg, patch) ==
    [f \in IdentityFields |-> IF f \in DOMAIN patch THEN patch[f] ELSE cfg[f]]

\* hub.config.set: client.updateConfig(params.config), then persistConfig
HubConfigSet(patch) ==
    /\ selfTaskMode' = IF "selfTaskMode" \in DOMAIN patch THEN patch.selfTaskMode
                       ELSE selfTaskMode
    /\ config' = UpdateConfig(config, patch)
    /\ configFile' = PersistConfig(configFile, config')
    /\ UNCHANGED <<eventVars, chatVars, hubNodes, lastReply, verbs, received, cliRuns,
                   diskVars, fanout,
                   queueVars, connected, wsLog, storeVars, sendReplies, clientVars>>

\* hub.task.cancel: the local queue cancel, then the remote cancel
TaskCancelRpc(taskId) ==
    /\ Commit(CancelQueue(QState, connected, taskId))
    /\ sessionsDeleted' = sessionsDeleted \cup CancelDeletes(QState, taskId)
    /\ LET k == FindTask(stored, taskId) IN
       IF RemoteCancelApplies(stored, taskId)
       THEN /\ sentLog' = SendOut(sentLog, connected,
                                  Frame("task_cancel", 0, taskId, stored[k].targetNodeId))
            /\ stored' = UpdateCancelled(stored, taskId)
            /\ saveTimer' = TouchTask(stored, taskId, saveTimer)
            /\ fanout' = TaskUpdate(fanout, stored', taskId)
       ELSE UNCHANGED <<sentLog, stored, saveTimer, fanout>>
    /\ UNCHANGED <<extVars, maxConcurrent, limits, connected, nextUuid, localRuns, inboundCount,
                 rpcVars, clientVars>>

----------------------------------------------------------------------------
(* HubClient: the connection life cycle.  `socks` holds the WebSocket        *)
(* objects ever created, each "connecting", "open", "closing" (close() was   *)
(* called, the close event is still to come) or "closed"; their handlers     *)
(* are closures over the client, so an event of any socket acts on the       *)
(* client.  `ws` indexes the current socket (0 for null).  `timeouts` and    *)
(* `intervals` count the armed setTimeout / setInterval timers,              *)
(* `reconnectTimer` and `heartbeatTimer` say whether the field holds one.    *)
(* `importing` counts connect() calls suspended at `await import('ws')`.     *)

\* the test of config.token in connect()
HasToken == config.token # Undefined

\* the client's mutable state as one value, threaded through the methods
CState ==
    [socks |-> socks, ws |-> ws, connected |-> connected,
     intentionallyClosed |-> intentionallyClosed,
     reconnectTimer |-> reconnectTimer, timeouts |-> timeouts,
     heartbeatTimer |-> heartbeatTimer, intervals |-> intervals,
     importing |-> importing, clientLog |-> clientLog]

\* writes a client state back to the variables
CommitClient(c) ==
    /\ socks' = c.socks
    /\ ws' = c.ws
    /\ connected' = c.connected
    /\ intentionallyClosed' = c.intentionallyClosed
    /\ reconnectTimer' = c.reconnectTimer
    /\ timeouts' = c.timeouts
    /\ heartbeatTimer' = c.heartbeatTimer
    /\ intervals' = c.intervals
    /\ importing' = c.importing
    /\ clientLog' = c.clientLog

\* HubClient.stopHeartbeat
StopHeartbeat(c) ==
    IF c.heartbeatTimer
    THEN [c EXCEPT !.heartbeatTimer = FALSE, !.intervals = c.intervals - 1]
    ELSE c

\* HubClient.startHeartbeat
StartHeartbeat(c) ==
    LET c1 == StopHeartbeat(c)
    IN [c1 EXCEPT !.heartbeatTimer = TRUE, !.intervals = c1.intervals + 1]

\* a scheduleReconnect that never arms
ScheduleReconnectNever(c) == c

\* a scheduleReconnect that does not look for a pending timer
ScheduleReconnectAgain(c) ==
    IF c.intentionallyClosed
    THEN c
    ELSE [c EXCEPT !.reconnectTimer = TRUE, !.timeouts = c.timeouts + 1]

\* HubClient.scheduleReconnect
ScheduleReconnect(c) ==
    IF c.intentionallyClosed \/ c.reconnectTimer
    THEN c
    ELSE [c EXCEPT !.reconnectTimer = TRUE, !.timeouts = c.timeouts + 1]

\* ws.onopen
OnOpen(c) == StartHeartbeat([c EXCEPT !.connected = TRUE])

\* an onclose that leaves the heartbeat running
OnCloseKeepsHeartbeat(c) ==
    LET c1 == [c EXCEPT !.connected = FALSE]
    IN IF ~c1.intentionallyClosed THEN ScheduleReconnect(c1) ELSE c1

\* ws.onclose
OnClose(c) ==
    LET c1 == StopHeartbeat([c EXCEPT !.connected = FALSE])
    IN IF ~c1.intentionallyClosed THEN ScheduleReconnect(c1) ELSE c1

\* connect() from `new WebSocketImpl(wsUrl)` on: the constructor returns a socket,
\* or throws and the catch block schedules a reconnect
OpenSocket(c, outcome) ==
    IF outcome = "socket"
    THEN [c EXCEPT !.socks = Append(c.socks, "connecting"), !.ws = Len(c.socks) + 1]
    ELSE ScheduleReconnect(c)

\* HubClient.connect past the token test, up to its first await (none with a
\* built-in WebSocket)
ConnectWithToken(c, outcome) ==
    IF c.connected
    THEN c
    ELSE LET c1 == [c EXCEPT !.intentionallyClosed = FALSE]
         IN IF native THEN OpenSocket(c1, outcome)
            ELSE [c1 EXCEPT !.importing = c1.importing + 1]

\* HubClient.connect up to its first await
ConnectCall(c, outcome) == IF ~HasToken THEN c ELSE ConnectWithToken(c, outcome)

\* ws.close(): the close event comes later
CloseSocket(socket) == IF socket \in {"connecting", "open"} THEN "closing" ELSE socket

\* HubClient.disconnect
DisconnectCall(c) ==
    LET c1 == StopHeartbeat([c EXCEPT !.intentionallyClosed = TRUE])
        c2 == IF c1.reconnectTimer
              THEN [c1 EXCEPT !.reconnectTimer = FALSE, !.timeouts = c1.timeouts - 1]
              ELSE c1
        c3 == IF c2.ws # 0
              THEN [c2 EXCEPT !.socks[c2.ws] = CloseSocket(c2.socks[c2.ws]), !.ws = 0]
              ELSE c2
    IN [c3 EXCEPT !.connected = FALSE]

\* a sendWS that does not test the connection
TransmitsAlways(c) == TRUE

\* the test in sendWS, and ws.send() throwing on a socket that is not open
Transmits(c) == c.ws # 0 /\ c.connected /\ c.socks[c.ws] = "open"

\* HubClient.sendWS on the client's own log
ClientSendWS(c, type) ==
    [c EXCEPT !.clientLog = SendOut(c.clientLog, Transmits(c), Frame(type, 0, "-", "-"))]

\* outcomes of `new WebSocketImpl(wsUrl)`; a throw counts as a failure of the network
Outcomes == {"socket", "throw"}
ClientRest == <<queueVars, wsLog, storeVars, rpcVars, native, extVars, fanVars>>

\* hub.connect / the service start / register: an explicit connect()
Connect(outcome) ==
    /\ ops < MaxOps
    /\ ops' = ops + 1
    /\ CommitClient(ConnectCall(CState, outcome))
    /\ UNCHANGED ClientRest

\* connect() resumes after `await import('ws')`
ImportDone(outcome) ==
    /\ importing > 0
    /\ outcome = "throw" => ops < MaxOps
    /\ ops' = IF outcome = "throw" THEN ops + 1 ELSE ops
    /\ CommitClient(OpenSocket([CState EXCEPT !.importing = importing - 1], outcome))
    /\ UNCHANGED ClientRest

\* hub.disconnect / the service stop / unregister: disconnect()
Disconnect ==
    /\ ops < MaxOps
    /\ ops' = ops + 1
    /\ CommitClient(DisconnectCall(CState))
    /\ UNCHANGED ClientRest

\* the reconnect timer fires: reconnectTimer = null; connect()
ReconnectFire(outcome) ==
    /\ timeouts > 0
    /\ outcome = "throw" => ops < MaxOps
    /\ ops' = IF outcome = "throw" /\ native /\ ~connected THEN ops + 1 ELSE ops
    /\ CommitClient(ConnectCall([CState EXCEPT !.reconnectTimer = FALSE,
                                               !.timeouts = timeouts - 1], outcome))
    /\ UNCHANGED ClientRest

\* the Hub accepts socket k: its open event
SockOpen(k) ==
    /\ socks[k] = "connecting"
    /\ CommitClient(OnOpen([CState EXCEPT !.socks[k] = "open"]))
    /\ UNCHANGED <<ClientRest, ops>>

\* the connection attempt of socket k fails: its close event
SockRefuse(k) ==
    /\ socks[k] = "connecting"
    /\ ops < MaxOps
    /\ ops' = ops + 1
    /\ CommitClient(OnClose([CState EXCEPT !.socks[k] = "closed"]))
    /\ UNCHANGED ClientRest

\* the open socket k is dropped by the network: its close event
SockDrop(k) ==
    /\ socks[k] = "open"
    /\ ops < MaxOps
    /\ ops' = ops + 1
    /\ CommitClient(OnClose([CState EXCEPT !.socks[k] = "closed"]))
    /\ UNCHANGED ClientRest

\* the close event of a socket the client closed itself
SockClosed(k) ==
    /\ socks[k] = "closing"
    /\ CommitClient(OnClose([CState EXCEPT !.socks[k] = "closed"]))
    /\ UNCHANGED <<ClientRest, ops>>

\* a heartbeat interval fires: sendHeartbeat
HeartbeatTick ==
    /\ intervals > 0
    /\ Len(clientLog) < MaxFrames
    /\ CommitClient(ClientSendWS(CState, "heartbeat"))
    /\ UNCHANGED <<ClientRest, ops>>

\* the application hands a frame to sendWS
ClientSend ==
    /\ Len(clientLog) < MaxFrames
    /\ CommitClient(ClientSendWS(CState, "chat"))
    /\ UNCHANGED <<ClientRest, ops>>

----------------------------------------------------------------------------
(* Lifecycle broadcasts: HubClient.handleBroadcast, the node cache and the   *)
(* node-event store.  `changeSeq` is _changeSeq, `nodesCache` the ids of the *)
(* cached node list, `fetches` the /api/nodes responses still in flight,     *)
(* `fetchLog` the value of changeSeq when each of them and the cached list   *)
(* was requested, and the same for the latest list fetchNodes returned,      *)
(* `nodeCalls` the onNodeOnline / onNodeOffline invocations in call order,   *)
(* `nodeEvents` NodeEventStore.events (newest first) and `broadcasts` the    *)
(* number of broadcast frames handled.                                       *)

NodeMaxHistory == 200

\* the actions of a system broadcast that handleBroadcast knows
LifecycleActions == {"node_online", "node_offline", "child_registered",
                     "child_unregistered", "child_departed", "child_arrived",
                     "reparented"}
ChildActions == LifecycleActions \ {"node_online", "node_offline"}

\* a broadcast frame: msg.channel, payload.action, payload.node.id and
\* payload.nodeId (NoNodeId stands for an absent field)
BroadcastMsg(channel, action, node, nodeId) ==
    [channel |-> channel, action |-> action, node |-> node, nodeId |-> nodeId]

EState ==
    [changeSeq |-> changeSeq, nodesCache |-> nodesCache, nodeCalls |-> nodeCalls,
     nodeEvents |-> nodeEvents, fanout |-> fanout, eventTimer |-> eventTimer]

\* NodeEventStore.record
NodeEventRecord(events, event) ==
    LET all == <<event>> \o events
    IN IF Len(all) > NodeMaxHistory THEN SubSeq(all, 1, NodeMaxHistory) ELSE all

\* handleNodeEvent(action, {nodeId}): the store, then the fan-out
HandleNodeEvent(e, action, nodeId) ==
    IF nodeId = NoNodeId THEN e
    ELSE IF action \notin {"node_online", "node_offline", "child_registered",
                           "child_departed"} THEN e
    ELSE LET event == CASE action = "node_online" -> "online"
                        [] action = "node_offline" -> "offline"
                        [] action = "child_registered" -> "registered"
                        [] OTHER -> "departed"
         IN [e EXCEPT !.nodeEvents = NodeEventRecord(e.nodeEvents,
                                        [nodeId |-> nodeId, event |-> event]),
                      !.eventTimer = ScheduleSave(e.eventTimer),
                      !.fanout = Broadcast(e.fanout, "hub.node.event", nodeId, event)]

\* a handleBroadcast that leaves the callbacks out
HandleBroadcastNoCallback(e, msg) ==
    IF msg.channel = "system" /\ msg.action \in LifecycleActions
    THEN [e EXCEPT !.nodesCache = {}, !.changeSeq = e.changeSeq + 1]
    ELSE e

\* HubClient.handleBroadcast, with client.onNodeOnline / onNodeOffline as
\* plugin.register sets them
HandleBroadcast(e, msg) ==
    IF msg.channel # "system" THEN e
    ELSE IF msg.action = "node_online"
    THEN IF msg.node # NoNodeId
         THEN HandleNodeEvent(
                  [e EXCEPT !.nodesCache = {}, !.changeSeq = e.changeSeq + 1,
                            !.nodeCalls = Append(e.nodeCalls,
                                   [cb |-> "onNodeOnline", nodeId |-> msg.node])],
                  "node_online", msg.node)
         ELSE e
    ELSE IF msg.action = "node_offline"
    THEN IF msg.nodeId # NoNodeId
         THEN HandleNodeEvent(
                  [e EXCEPT !.nodesCache = {}, !.changeSeq = e.changeSeq + 1,
                            !.nodeCalls = Append(e.nodeCalls,
                                   [cb |-> "onNodeOffline", nodeId |-> msg.nodeId])],
                  "node_offline", msg.nodeId)
         ELSE e
    ELSE IF msg.action \in ChildActions
    THEN [e EXCEPT !.nodesCache = {}, !.changeSeq = e.changeSeq + 1]
    ELSE e

CommitEvents(e) ==
    /\ changeSeq' = e.changeSeq
    /\ nodesCache' = e.nodesCache
    /\ nodeCalls' = e.nodeCalls
    /\ nodeEvents' = e.nodeEvents
    /\ eventTimer' = e.eventTimer
    /\ fanout' = e.fanout

EventRest == <<queueVars, connected, wsLog, storeVars, rpcVars, clientVars, chatVars,
              identityVars, received, cliRuns, diskVars>>

\* handleMessage, case 'broadcast'
BroadcastFrame(msg) ==
    /\ connected
    /\ broadcasts < MaxBroadcasts
    /\ broadcasts' = broadcasts + 1
    /\ CommitEvents(HandleBroadcast(EState, msg))
    /\ UNCHANGED <<EventRest, fetches, fetchLog>>

\* handleMessage, cases 'direct', 'heartbeat' and default
OtherFrame(type) ==
    /\ connected
    /\ inboundCount < MaxInbound
    /\ inboundCount' = inboundCount + 1
    /\ UNCHANGED <<queueVars, connected, wsLog, stored, nextUuid, localRuns, sentLog, saveTimer,
                   rpcVars, clientVars, extVars, fanVars>>

\* fetchNodes answered from the cache: not forced, the cache not empty and
\* younger than CACHE_TTL_MS
FetchNodesCached(force, expired) ==
    /\ ~force /\ nodesCache # {} /\ ~expired
    /\ fetchLog' = [fetchLog EXCEPT
                      !.last = [force |-> FALSE, called |-> changeSeq,
                                requested |-> fetchLog.cacheSeq]]
    /\ UNCHANGED <<EventRest, fanVars, changeSeq, nodesCache, nodeCalls, nodeEvents,
                   broadcasts, eventTimer, fetches>>

\* fetchNodes up to its await: the cache is passed over (forced, empty or
\* older than CACHE_TTL_MS) and GET /api/nodes is issued; nodes is data.nodes
FetchNodes(force, expired, nodes) ==
    /\ force \/ nodesCache = {} \/ expired
    /\ Len(fetches) < MaxFetches
    /\ fetches' = Append(fetches, nodes)
    /\ fetchLog' = [fetchLog EXCEPT
                      !.pending = Append(fetchLog.pending,
                                         [seq |-> changeSeq, force |-> force])]
    /\ UNCHANGED <<EventRest, fanVars, changeSeq, nodesCache, nodeCalls, nodeEvents,
                   broadcasts, eventTimer>>

\* fetchNodes after its await: the response replaces the cache and is returned
FetchNodesReturn(k) ==
    /\ k \in DOMAIN fetches
    /\ nodesCache' = fetches[k]
    /\ fetches' = SeqRemoveAt(fetches, k)
    /\ fetchLog' = [pending |-> SeqRemoveAt(fetchLog.pending, k),
                    cacheSeq |-> fetchLog.pending[k].seq,
                    last |-> [force |-> fetchLog.pending[k].force,
                              called |-> fetchLog.pending[k].seq,
                              requested |-> fetchLog.pending[k].seq]]
    /\ UNCHANGED <<EventRest, fanVars, changeSeq, nodeCalls, nodeEvents, broadcasts,
                   eventTimer>>

----------------------------------------------------------------------------

(* Incoming chat: handleIncomingChat.  One run is followed from the chat     *)
(* frame to its reply.  `agentHistory` is the number of messages in the      *)
(* agent session hub-chat:<from>; a message is named by its position in that *)
(* history.  `chatPc` is the position of the handler, `chatConfig` its       *)
(* payload.config, `lastSentCount` and `refreshTimer` its locals of those    *)
(* names, `ticks` the history lengths seen by the chat.history calls of      *)
(* harvest ticks that have not returned, `finalSeen` the same for the final  *)
(* chat.history call, `agentAdded` the messages the agent has appended in    *)
(* this run and `chatLog` the chat frames handed to sendWS.                  *)

HistoryLimit == 30
ChatId == "c1"
ChatFrom == "n1"

\* the message the agent session holds at position p: user and assistant
\* turns alternate, and every third message has block content
AgentMessage(p) ==
    [pos |-> p,
     role |-> IF p % 2 = 1 THEN "user" ELSE "assistant",
     content |-> IF p % 3 = 0
                 THEN <<[type |-> "text", text |-> p], [type |-> "tool_use", text |-> 0],
                        [type |-> "text", text |-> p + 100]>>
                 ELSE <<[type |-> "string", text |-> p]>>]

\* the Gateway's chat.history {sessionKey, limit}: the latest `limit` messages
ChatHistory(n, limit) ==
    [k \in 1..Min(n, limit) |-> AgentMessage(Max(n - limit, 0) + k)]

\* msg.content.filter(c => c.type === 'text' && c.text).map(c => c.text).join('\n')
RECURSIVE JoinText(_)
JoinText(blocks) ==
    IF blocks = <<>> THEN <<>>
    ELSE (IF Head(blocks).type = "text" THEN <<Head(blocks).text>> ELSE <<>>)
         \o JoinText(Tail(blocks))

IsArray(content) == \E k \in DOMAIN content : content[k].type # "string"

\* formatMessages
FormatMessages(messages, whole) ==
    [k \in DOMAIN messages |->
        IF ~whole /\ IsArray(messages[k].content)
        THEN [messages[k] EXCEPT !.content =
                  <<[type |-> "string", text |-> JoinText(messages[k].content)]>>]
        ELSE messages[k]]

\* messages.slice(start)
Slice(messages, start) == SubSeq(messages, start + 1, Len(messages))

ChatFrame(role, messages, replyTo, done, conn) ==
    [role |-> role, messages |-> messages, content |-> "-", replyTo |-> replyTo,
     done |-> done, to |-> ChatFrom, tx |-> conn]

\* the reply of the catch block
ErrorFrame(conn) ==
    [ChatFrame("assistant", <<>>, ChatId, TRUE, conn) EXCEPT !.content = "error"]

ChatRest == <<queueVars, wsLog, storeVars, rpcVars, clientVars, eventVars, fanVars,
              identityVars, received, cliRuns, diskVars>>

\* an inbound chat frame with role user; an empty content is passed over,
\* otherwise gatewayRpc('agent') is called
HandleIncomingChat(content, whole, autoRefresh) ==
    /\ connected
    /\ chatPc = "idle"
    /\ chatPc' = IF content THEN "agent" ELSE "ignored"
    /\ chatConfig' = [whole |-> whole, autoRefresh |-> autoRefresh]
    /\ UNCHANGED <<ChatRest, connected, agentHistory, agentAdded, lastSentCount,
                   refreshTimer, ticks, finalSeen, chatLog>>

\* gatewayRpc('agent') returns: the user message is in the session, the
\* harvester is armed when autoRefreshMs > 0, and agent.wait is called
AgentReturn ==
    /\ chatPc = "agent"
    /\ chatPc' = "wait"
    /\ agentHistory' = agentHistory + 1
    /\ lastSentCount' = 0
    /\ refreshTimer' = chatConfig.autoRefresh
    /\ UNCHANGED <<ChatRest, connected, chatConfig, agentAdded, ticks, finalSeen, chatLog>>

\* the agent run appends a message to its session
AgentAppend ==
    /\ chatPc = "wait"
    /\ agentAdded < MaxAgentMsgs
    /\ agentAdded' = agentAdded + 1
    /\ agentHistory' = agentHistory + 1
    /\ UNCHANGED <<ChatRest, connected, chatPc, chatConfig, lastSentCount, refreshTimer,
                   ticks, finalSeen, chatLog>>

\* the interval fires: the tick calls chat.history and awaits it
TickStart ==
    /\ refreshTimer
    /\ Len(ticks) < MaxTicks
    /\ ticks' = Append(ticks, agentHistory)
    /\ UNCHANGED <<ChatRest, connected, chatPc, chatConfig, agentHistory, agentAdded,
                   lastSentCount, refreshTimer, finalSeen, chatLog>>

\* the body of a tick after its chat.history returned: the new value of
\* lastSentCount and the messages of the delta frames it sends
TickHarvest(count, seen, whole) ==
    LET messages == ChatHistory(seen, HistoryLimit)
    IN IF Len(messages) > count
       THEN [count |-> Len(messages),
             frames |-> <<FormatMessages(Slice(messages, count), whole)>>]
       ELSE [count |-> count, frames |-> <<>>]

\* the chat.history call of tick k returns (ok) or throws
TickReturn(k, ok) ==
    /\ k \in DOMAIN ticks
    /\ ticks' = SeqRemoveAt(ticks, k)
    /\ LET h == TickHarvest(lastSentCount, ticks[k], chatConfig.whole) IN
       IF ok
       THEN /\ lastSentCount' = h.count
            /\ chatLog' = chatLog \o
                 [i \in DOMAIN h.frames |->
                     ChatFrame("delta", h.frames[i], "-", FALSE, connected)]
       ELSE UNCHANGED <<lastSentCount, chatLog>>
    /\ UNCHANGED <<ChatRest, connected, chatPc, chatConfig, agentHistory, agentAdded,
                   refreshTimer, finalSeen>>

\* gatewayRpc('agent') throws: the catch block replies
AgentFail ==
    /\ chatPc = "agent"
    /\ chatPc' = "done"
    /\ chatLog' = Append(chatLog, ErrorFrame(connected))
    /\ UNCHANGED <<ChatRest, connected, chatConfig, agentHistory, agentAdded,
                   lastSentCount, refreshTimer, ticks, finalSeen>>

\* agent.wait returns or throws: clearInterval in the finally block, then
\* the final chat.history call or the catch block
AgentWaitReturn(ok) ==
    /\ chatPc = "wait"
    /\ refreshTimer' = FALSE
    /\ IF ok
       THEN /\ chatPc' = "final"
            /\ finalSeen' = agentHistory
            /\ chatLog' = chatLog
       ELSE /\ chatPc' = "done"
            /\ finalSeen' = finalSeen
            /\ chatLog' = Append(chatLog, ErrorFrame(connected))
    /\ UNCHANGED <<ChatRest, connected, chatConfig, agentHistory, agentAdded,
                   lastSentCount, ticks>>

\* a final reply that carries only what the deltas have not sent
FinalMessagesRest(count, seen, whole) ==
    FormatMessages(Slice(ChatHistory(seen, HistoryLimit), Min(count, seen)), whole)

\* the messages of the final reply
FinalMessages(count, seen, whole) ==
    FormatMessages(ChatHistory(seen, HistoryLimit), whole)

\* the final chat.history call returns (the history reply) or throws (the
\* catch block)
FinalReturn(ok) ==
    /\ chatPc = "final"
    /\ chatPc' = "done"
    /\ chatLog' = Append(chatLog,
          IF ok
          THEN ChatFrame("assistant",
                         FinalMessages(lastSentCount, finalSeen, chatConfig.whole),
                         ChatId, TRUE, connected)
          ELSE ErrorFrame(connected))
    /\ UNCHANGED <<ChatRest, connected, chatConfig, agentHistory, agentAdded,
                   lastSentCount, refreshTimer, ticks, finalSeen>>

----------------------------------------------------------------------------
(* Identity: register / unregister / reparent and the config file.  `config` *)
(* is HubClient.config restricted to nodeId, token, clusterId and parentId, *)
(* `configFile` the same four fields of plugins.entries.cluster-hub.config  *)
(* in openclaw.json, `hubNodes` the nodes the Hub has on record, `lastReply` *)
(* the latest respond() of an identity verb and `verbs` their number.        *)

\* client.unregister on self, leaving config.parentId in place
UnregisterSelfKeepsParent(cfg) ==
    [cfg EXCEPT !.nodeId = Undefined, !.token = Undefined, !.clusterId = Undefined]

\* client.unregister on self: the four assignments
UnregisterSelf(cfg) ==
    [cfg EXCEPT !.nodeId = Undefined, !.token = Undefined, !.clusterId = Undefined,
                !.parentId = Undefined]

\* respond(ok, ...) of an identity verb: whether it carries a message, and the
\* node the verb was called for
Reply(verb, ok, nodeId) ==
    [verb |-> verb, ok |-> ok, message |-> ~ok, nodeId |-> nodeId]

Respond(verb, ok, nodeId) ==
    /\ verbs < MaxVerbs
    /\ verbs' = verbs + 1
    /\ lastReply' = Reply(verb, ok, nodeId)

IdentityRest == <<queueVars, wsLog, storeVars, rpcVars, native, eventVars, chatVars,
                  fanVars, received, cliRuns, diskVars>>
ClientFields == <<socks, ws, connected, intentionallyClosed, reconnectTimer, timeouts,
                  heartbeatTimer, intervals, importing, clientLog, ops>>

\* hub.register: client.register, persistConfig, connect (autoConnect), respond
HubRegister(hubOk, outcome) ==
    /\ Respond("register", hubOk, SelfNodeId)
    /\ IF hubOk
       THEN /\ config' = [nodeId |-> SelfNodeId, token |-> Tokens[verbs + 1],
                          clusterId |-> "c0", parentId |-> Null]
            /\ configFile' = PersistConfig(configFile, config')
            /\ hubNodes' = hubNodes \cup {SelfNodeId}
            /\ IF AutoConnect
               THEN CommitClient(ConnectWithToken(CState, outcome))
               ELSE CommitClient(CState)
            /\ UNCHANGED ops
       ELSE UNCHANGED <<config, configFile, hubNodes, ClientFields>>
    /\ UNCHANGED IdentityRest

\* hub.register.child: client.registerChild, respond
HubRegisterChild(hubOk) ==
    /\ IF config.nodeId = Undefined
       THEN Respond("register.child", FALSE, Undefined) /\ UNCHANGED hubNodes
       ELSE /\ Respond("register.child", hubOk, ChildId)
            /\ hubNodes' = IF hubOk THEN hubNodes \cup {ChildId} ELSE hubNodes
    /\ UNCHANGED <<config, configFile, ClientFields, IdentityRest>>

\* hub.unregister: client.unregister (DELETE, then the reset and disconnect()
\* when the node is this one), persistConfig, respond
HubUnregister(param, hubOk) ==
    LET nodeId == IF param # Undefined THEN param ELSE config.nodeId IN
    /\ hubOk => nodeId \in hubNodes
    /\ IF nodeId = Undefined
       THEN /\ Respond("unregister", FALSE, Undefined)
            /\ UNCHANGED <<config, configFile, hubNodes, ClientFields>>
       ELSE IF ~hubOk
       THEN /\ Respond("unregister", FALSE, nodeId)
            /\ UNCHANGED <<config, configFile, hubNodes, ClientFields>>
       ELSE /\ Respond("unregister", TRUE, nodeId)
            /\ hubNodes' = hubNodes \ {nodeId}
            /\ IF nodeId = config.nodeId
               THEN /\ config' = UnregisterSelf(config)
                    /\ CommitClient(DisconnectCall(CState))
                    /\ UNCHANGED ops
               ELSE UNCHANGED <<config, ClientFields>>
            /\ configFile' = PersistConfig(configFile, config')
    /\ UNCHANGED IdentityRest

\* hub.reparent: client.reparent (PATCH, then the new token, parent and
\* cluster when the node is this one), persistConfig, respond
HubReparent(param, newParentId, hubOk) ==
    /\ hubOk => param \in hubNodes
    /\ Respond("reparent", hubOk, param)
    /\ IF hubOk
       THEN /\ config' = IF param = config.nodeId
                         THEN [config EXCEPT !.token = Tokens[verbs + 1],
                                             !.parentId = newParentId,
                                             !.clusterId = IF newParentId = Null
                                                           THEN "c0" ELSE "c2"]
                         ELSE config
            /\ configFile' = PersistConfig(configFile, config')
       ELSE UNCHANGED <<config, configFile>>
    /\ UNCHANGED <<hubNodes, ClientFields, IdentityRest>>

----------------------------------------------------------------------------
(* Persistence: the debounced saves of TaskStore, NodeEventStore and         *)
(* ChatStore, and the service stop.  `saveTimer`, `eventTimer` and           *)
(* `chatTimers[nodeId]` count the save timeouts armed for tasks.json,        *)
(* node-events.json and chats/<nodeId>.json; `tasksFile` and `eventsFile`    *)
(* are the lists those files hold, `chatFiles` maps each chat file that      *)
(* exists to its messages and `chats` is ChatStore.chats.  A write is taken  *)
(* to succeed.  `chatOps` counts the chat verbs and chat_reply frames        *)
(* handled and numbers the messages, `stops` counts the service stops.       *)

\* what no step of this section touches
PersistRest == <<queueVars, wsLog, rpcVars, identityVars, chatVars, received, cliRuns,
                 now, lastClear, nextUuid, localRuns, inboundCount, changeSeq,
                 nodesCache, nodeCalls, broadcasts, fetches, fetchLog>>

\* the timeout of TaskStore.scheduleSave fires: saveTimer = null; save()
SaveFire ==
    /\ saveTimer > 0
    /\ saveTimer' = saveTimer - 1
    /\ tasksFile' = stored
    /\ UNCHANGED <<PersistRest, stored, sentLog, nodeEvents, eventTimer, eventsFile,
                   chats, chatTimers, chatFiles, chatOps, stops, connected,
                   clientVars, fanVars>>

\* the timeout of NodeEventStore.scheduleSave fires
EventSaveFire ==
    /\ eventTimer > 0
    /\ eventTimer' = eventTimer - 1
    /\ eventsFile' = nodeEvents
    /\ UNCHANGED <<PersistRest, stored, sentLog, saveTimer, tasksFile, nodeEvents,
                   chats, chatTimers, chatFiles, chatOps, stops, connected,
                   clientVars, fanVars>>

\* ChatStore.maxHistory
ChatMaxHistory == 500

\* ChatStore.getHistory without a limit
GetHistory(ch, nodeId) == IF MapHas(ch, nodeId) THEN ch[nodeId] ELSE <<>>

\* ChatStore.appendMessage, the map it leaves
AppendMessage(ch, nodeId, message) ==
    LET history == Append(GetHistory(ch, nodeId), message)
    IN MapSet(ch, nodeId,
              IF Len(history) > ChatMaxHistory
              THEN SubSeq(history, Len(history) - ChatMaxHistory + 1, Len(history))
              ELSE history)

\* ChatStore.scheduleSave(nodeId)
ScheduleChatSave(timers, nodeId) ==
    [timers EXCEPT ![nodeId] = ScheduleSave(timers[nodeId])]

\* ChatStore.saveNode
SaveNode(files, ch, nodeId) == MapSet(files, nodeId, GetHistory(ch, nodeId))

\* ChatStore.flush, the files it leaves: saveNode for every armed timer
ChatFlush(files, ch, timers) ==
    LET armed == {nodeId \in DOMAIN timers : timers[nodeId] > 0}
    IN [nodeId \in (DOMAIN files) \cup armed |->
            IF nodeId \in armed THEN GetHistory(ch, nodeId) ELSE files[nodeId]]

\* the message appendMessage builds; its random id is the number of the call
ChatMessage(nodeId, role) == [id |-> chatOps + 1, nodeId |-> nodeId, role |-> role]

\* hub.chat.send: without nodeId or content respond(false); otherwise the
\* user message is appended, broadcast and sent to the peer
HubChatSend(nodeId, content) ==
    /\ chatOps < MaxChatOps
    /\ chatOps' = chatOps + 1
    /\ IF nodeId = Undefined \/ ~content
       THEN UNCHANGED <<chats, chatTimers, fanout, sentLog>>
       ELSE /\ chats' = AppendMessage(chats, nodeId, ChatMessage(nodeId, "user"))
            /\ chatTimers' = ScheduleChatSave(chatTimers, nodeId)
            /\ fanout' = Broadcast(fanout, "hub.chat.message", nodeId, "user")
            /\ sentLog' = SendOut(sentLog, connected, Frame("chat", 0, ChatId, nodeId))
    /\ UNCHANGED <<PersistRest, stored, saveTimer, tasksFile, nodeEvents, eventTimer,
                   eventsFile, chatFiles, stops, connected, clientVars>>

\* handleChatReply: an inbound chat_reply frame; only a final reply with a
\* text is appended and broadcast
HandleChatReply(from, done, text) ==
    /\ connected
    /\ chatOps < MaxChatOps
    /\ chatOps' = chatOps + 1
    /\ IF done /\ text
       THEN /\ chats' = AppendMessage(chats, from, ChatMessage(from, "assistant"))
            /\ chatTimers' = ScheduleChatSave(chatTimers, from)
            /\ fanout' = Broadcast(fanout, "hub.chat.message", from, "assistant")
       ELSE UNCHANGED <<chats, chatTimers, fanout>>
    /\ UNCHANGED <<PersistRest, stored, sentLog, saveTimer, tasksFile, nodeEvents,
                   eventTimer, eventsFile, chatFiles, stops, connected, clientVars>>

\* hub.chat.clear: without nodeId respond(false); otherwise
\* ChatStore.clearHistory drops the entry and unlinks the file
HubChatClear(nodeId) ==
    /\ chatOps < MaxChatOps
    /\ chatOps' = chatOps + 1
    /\ IF nodeId = Undefined
       THEN UNCHANGED <<chats, chatFiles>>
       ELSE /\ chats' = MapDelete(chats, nodeId)
            /\ chatFiles' = MapDelete(chatFiles, nodeId)
    /\ UNCHANGED <<PersistRest, stored, sentLog, saveTimer, tasksFile, nodeEvents,
                   eventTimer, eventsFile, chatTimers, stops, connected, clientVars,
                   fanVars>>

\* the timeout of ChatStore.scheduleSave(nodeId) fires:
\* saveTimers.delete(nodeId); saveNode(nodeId)
ChatSaveFire(nodeId) ==
    /\ chatTimers[nodeId] > 0
    /\ chatTimers' = [chatTimers EXCEPT ![nodeId] = chatTimers[nodeId] - 1]
    /\ chatFiles' = SaveNode(chatFiles, chats, nodeId)
    /\ UNCHANGED <<PersistRest, stored, sentLog, saveTimer, tasksFile, nodeEvents,
                   eventTimer, eventsFile, chats, chatOps, stops, connected,
                   clientVars, fanVars>>

\* the service stop: taskStore.flush(); chatStore.flush();
\* nodeEventStore.flush(); client.disconnect()
ServiceStop ==
    /\ stops < MaxStops
    /\ stops' = stops + 1
    /\ saveTimer' = 0
    /\ tasksFile' = stored
    /\ chatFiles' = ChatFlush(chatFiles, chats, chatTimers)
    /\ chatTimers' = [nodeId \in DOMAIN chatTimers |-> 0]
    /\ eventTimer' = 0
    /\ eventsFile' = nodeEvents
    /\ CommitClient(DisconnectCall(CState))
    /\ UNCHANGED <<PersistRest, stored, sentLog, nodeEvents, chats, chatOps, native,
                   ops, fanVars>>

----------------------------------------------------------------------------
\* a node registered in an earlier run: its identity is in the config file
Registered ==
    /\ config = [nodeId |-> SelfNodeId, token |-> "t0", clusterId |-> "c0",
                 parentId |-> Null]
    /\ configFile = config
    /\ hubNodes = {SelfNodeId}

\* a node that has never registered
Unregistered ==
    /\ config = [f \in IdentityFields |-> Undefined]
    /\ configFile = config
    /\ hubNodes = {}

\* the state after construction, but for the build, the agent session and
\* the identity
InitState ==
    /\ maxConcurrent = DefaultMaxConcurrent
    /\ queue = <<>>
    /\ dispatching = EmptyMap
    /\ inflight = EmptyMap
    /\ completed = <<>>
    /\ tasks = <<>>
    /\ pc = <<>>
    /\ sessionsDeleted = {}
    /\ limits = {}
    /\ connected = FALSE
    /\ wsLog = <<>>
    /\ nextUuid = 1
    /\ localRuns = {}
    /\ sentLog = <<>>
    /\ inboundCount = 0
    /\ selfTaskMode = SelfTaskMode
    /\ sendReplies = <<>>
    /\ socks = <<>>
    /\ ws = 0
    /\ intentionallyClosed = FALSE
    /\ reconnectTimer = FALSE
    /\ timeouts = 0
    /\ heartbeatTimer = FALSE
    /\ intervals = 0
    /\ importing = 0
    /\ clientLog = <<>>
    /\ ops = 0
    /\ fanout = EmptyMap
    /\ changeSeq = 0
    /\ nodesCache = {}
    /\ nodeCalls = <<>>
    /\ nodeEvents = <<>>
    /\ broadcasts = 0
    /\ fetches = <<>>
    /\ fetchLog = [pending |-> <<>>, cacheSeq |-> 0,
                   last |-> [force |-> FALSE, called |-> 0, requested |-> 0]]
    /\ chatPc = "idle"
    /\ chatConfig = [whole |-> FALSE, autoRefresh |-> FALSE]
    /\ agentAdded = 0
    /\ lastSentCount = 0
    /\ refreshTimer = FALSE
    /\ ticks = <<>>
    /\ finalSeen = 0
    /\ chatLog = <<>>
    /\ lastReply = Reply("-", TRUE, Undefined)
    /\ verbs = 0
    /\ received = <<>>
    /\ cliRuns = {}
    /\ now = 1
    /\ saveTimer = 0
    /\ lastClear = [calls |-> 0, cutoff |-> 0, cleared |-> 0]
    /\ eventTimer = 0
    /\ eventsFile = <<>>
    /\ chats = EmptyMap
    /\ chatTimers = [nodeId \in PeerIds |-> 0]
    /\ chatOps = 0
    /\ chatFiles = EmptyMap
    /\ stops = 0

\* TaskStore.load with no tasks.json, or one without tasks
FreshStore ==
    /\ stored = <<>>
    /\ tasksFile = <<>>

\* a runtime with a built-in WebSocket (Node.js 22+); the agent has no
\* hub-chat session yet
Init ==
    InitState /\ native = TRUE /\ agentHistory = 0 /\ Registered /\ FreshStore

\* taskIds the sent-task store knows, and one it does not
SentIds == {stored[k].taskId : k \in DOMAIN stored} \cup {"S0"}

\* The Hub delivers at most MaxTasks task frames
ReceiveTask ==
    /\ Len(tasks) < MaxTasks
    /\ \E taskId \in InboundIds, cfg \in ConfigInputs : HandleIncomingTask(taskId, cfg)
\* The Hub delivers one task frame more
ReceiveBurst ==
    /\ Len(tasks) < MaxTasks + 1
    /\ \E taskId \in InboundIds, cfg \in ConfigInputs : HandleIncomingTask(taskId, cfg)
DispatchDone == \E i \in DOMAIN tasks : DispatchReturn(i)
DispatchError == \E i \in DOMAIN tasks : DispatchFail(i)
WaitDone == \E i \in DOMAIN tasks, success \in BOOLEAN : WaitReturn(i, success)
CancelFrame == \E taskId \in Range(TaskIds) : Cancel(taskId)
CancelRpc == \E taskId \in Range(TaskIds) \cup SentIds : TaskCancelRpc(taskId)
TaskSend ==
    /\ Len(sendReplies) < MaxSent
    /\ \E nodeId \in Targets \cup {NoNodeId} : HubTaskSend(nodeId)
ConfigSet == \E mode \in SelfTaskModes : HubConfigSet([selfTaskMode |-> mode])
LocalDone == \E taskId \in localRuns, success \in BOOLEAN : LocalTaskDone(taskId, success)
TaskAck ==
    /\ inboundCount < MaxInbound
    /\ \E taskId \in SentIds, status \in Statuses : HandleTaskAck(taskId, status)
TaskResult ==
    /\ inboundCount < MaxInbound
    /\ \E taskId \in SentIds, success \in BOOLEAN : HandleTaskResult(taskId, success)

QueueSteps ==
    \/ SocketOpen
    \/ SocketClose
    \/ DispatchDone
    \/ DispatchError
    \/ WaitDone
    \/ CancelFrame
    \/ CancelRpc

\* the executor side: a node receiving tasks
Next == ReceiveTask \/ QueueSteps
Spec == Init /\ [][Next]_vars

\* the executor side when every agent RPC returns or fails: gatewayRpc settles
\* each call by a response, a socket error or its timeout
DispatchSettles(i) == i \in DOMAIN tasks /\ (DispatchReturn(i) \/ DispatchFail(i))
WaitSettles(i) == i \in DOMAIN tasks /\ \E success \in BOOLEAN : WaitReturn(i, success)
SpecFair ==
    /\ Spec
    /\ \A i \in 1..MaxTasks : WF_vars(DispatchSettles(i)) /\ WF_vars(WaitSettles(i))
\* the executor side with one more inbound task frame
NextBurst == ReceiveBurst \/ QueueSteps
SpecBurst == Init /\ [][NextBurst]_vars

\* the sender side: a node sending tasks and tracking them in the store
NextStore ==
    \/ SocketOpen
    \/ SocketClose
    \/ TaskSend
    \/ ConfigSet
    \/ LocalDone
    \/ TaskAck
    \/ TaskResult
    \/ CancelRpc
SpecStore == Init /\ [][NextStore]_vars
\* executeTaskLocally settles: its agent RPCs all carry a timeout
SpecStoreFair == SpecStore /\ WF_vars(LocalDone)

\* tasks.json as earlier runs left it: n finished tasks, the latest first
History(n) ==
    [k \in 1..n |-> [taskId |-> ToString(n - k + 1), targetNodeId |-> "n2",
                     source |-> "remote", status |-> "completed", completedAt |-> 1]]
HistorySizes == {0, MaxHistory - 1, MaxHistory}
\* TaskStore.load
LoadedStore ==
    \E n \in HistorySizes :
        /\ stored = History(n)
        /\ tasksFile = stored
InitTrim ==
    InitState /\ native = TRUE /\ agentHistory = 0 /\ Registered /\ LoadedStore
\* the sender side on top of a store loaded from earlier runs
\* frames for the latest and for the oldest task of the store
EndIds == IF stored = <<>> THEN {} ELSE {stored[1].taskId, stored[Len(stored)].taskId}
EndAck ==
    /\ inboundCount < MaxInbound
    /\ \E taskId \in EndIds, status \in {"running"} : HandleTaskAck(taskId, status)
EndResult ==
    /\ inboundCount < MaxInbound
    /\ \E taskId \in EndIds, success \in BOOLEAN : HandleTaskResult(taskId, success)
NextTrim ==
    \/ SocketOpen
    \/ SocketClose
    \/ TaskSend
    \/ EndAck
    \/ EndResult
SpecTrim == InitTrim /\ [][NextTrim]_vars

\* the sender side with hub.task.clear, the clock, and ack frames whose
\* payload.status is missing or unknown
AckStatuses == {"running", "completed", Undefined, "paused"}
AnyAck ==
    /\ inboundCount < MaxInbound
    /\ \E taskId \in SentIds, status \in AckStatuses : HandleTaskAck(taskId, status)
\* `hub send` to a child node
SendToChild == CliSend(ChildId)
\* hub.task.cancel for a task of the store that no frame has touched yet
CancelSent ==
    \E k \in DOMAIN stored :
        stored[k].status = "sent" /\ TaskCancelRpc(stored[k].taskId)
ClearVerb == \E before \in {NoBefore} \cup (1..MaxClock) : HubTaskClear(before)
NextClear ==
    \/ SocketOpen
    \/ SendToChild
    \/ AnyAck
    \/ TaskResult
    \/ CancelSent
    \/ ClearVerb
    \/ Tick
SpecClear == Init /\ [][NextClear]_vars

\* the sender side with the CLI: `hub send` next to the hub.task.send verb
CliSendCmd == \E nodeId \in Targets : CliSend(nodeId)
CliDone == \E taskId \in cliRuns, success \in BOOLEAN : CliLocalDone(taskId, success)
NextCli ==
    \/ SocketOpen
    \/ SocketClose
    \/ CliSendCmd
    \/ CliDone
    \/ TaskSend
    \/ LocalDone
    \/ TaskAck
    \/ TaskResult
SpecCli == Init /\ [][NextCli]_vars

\* the three stores with their save timers, and the service stop; each of
\* the task and node-event inputs is offered PersistInputs times
PersistInputs == 1
NodeSeen ==
    /\ broadcasts < PersistInputs
    /\ \E action \in {"node_online", "node_offline"} :
          BroadcastFrame(BroadcastMsg("system", action, "n1", "n1"))
SendOne == nextUuid <= PersistInputs /\ SendToChild
ResultOne == inboundCount < PersistInputs /\ TaskResult
ClearNow == lastClear.calls < PersistInputs /\ HubTaskClear(NoBefore)
ChatSend == \E nodeId \in {ChildId, Undefined}, content \in BOOLEAN :
                HubChatSend(nodeId, content)
ChatReply == \E done \in BOOLEAN, text \in BOOLEAN : HandleChatReply(ChatFrom, done, text)
ChatClear == \E nodeId \in PeerIds \cup {Undefined} : HubChatClear(nodeId)
ChatSaved == \E nodeId \in PeerIds : ChatSaveFire(nodeId)
NextPersist ==
    \/ SocketOpen
    \/ SendOne
    \/ ResultOne
    \/ ClearNow
    \/ SaveFire
    \/ NodeSeen
    \/ EventSaveFire
    \/ ChatSend
    \/ ChatReply
    \/ ChatClear
    \/ ChatSaved
    \/ ServiceStop
SpecPersist == Init /\ [][NextPersist]_vars
\* a timeout that is armed fires: nothing in the process holds a timer back
SpecPersistFair ==
    /\ SpecPersist
    /\ WF_vars(SaveFire)
    /\ WF_vars(EventSaveFire)
    /\ \A nodeId \in PeerIds : WF_vars(ChatSaveFire(nodeId))
\* the Hub uplink's inbound side: broadcasts, other frames and the node cache
BroadcastInputs ==
    {BroadcastMsg("system", action, node, nodeId) :
        action \in LifecycleActions \cup {"other"},
        node \in PeerIds \cup {NoNodeId}, nodeId \in PeerIds \cup {NoNodeId}}
    \cup {BroadcastMsg("cluster", "node_online", "n1", "n1")}
ObserveBroadcast == \E msg \in BroadcastInputs : BroadcastFrame(msg)
OtherInbound == \E type \in {"direct", "heartbeat", "unknown"} : OtherFrame(type)
NodesFetch ==
    \E force \in BOOLEAN, expired \in BOOLEAN, nodes \in NodeLists :
        FetchNodes(force, expired, nodes)
NodesFetched == \E k \in DOMAIN fetches : FetchNodesReturn(k)
NodesCached == \E force \in BOOLEAN, expired \in BOOLEAN : FetchNodesCached(force, expired)
NextEvents ==
    \/ SocketOpen
    \/ SocketClose
    \/ ObserveBroadcast
    \/ OtherInbound
    \/ NodesFetch
    \/ NodesFetched
    \/ NodesCached
    \/ TaskAck
    \/ TaskResult
SpecEvents == Init /\ [][NextEvents]_vars

\* the chat executor: one inbound chat run
InitChat ==
    InitState /\ native = TRUE /\ agentHistory \in EarlierTurns /\ Registered /\ FreshStore
ReceiveChat ==
    \E content \in BOOLEAN, whole \in BOOLEAN, autoRefresh \in BOOLEAN :
        HandleIncomingChat(content, whole, autoRefresh)
TickDone == \E k \in DOMAIN ticks, ok \in BOOLEAN : TickReturn(k, ok)
WaitOver == \E ok \in BOOLEAN : AgentWaitReturn(ok)
FinalDone == \E ok \in BOOLEAN : FinalReturn(ok)
NextChat ==
    \/ SocketOpen
    \/ SocketClose
    \/ ReceiveChat
    \/ AgentReturn
    \/ AgentFail
    \/ AgentAppend
    \/ TickStart
    \/ TickDone
    \/ WaitOver
    \/ FinalDone
SpecChat == InitChat /\ [][NextChat]_vars

\* the Hub uplink: connection, reconnect and heartbeat
InitClient ==
    InitState /\ native \in BOOLEAN /\ agentHistory = 0 /\ Registered /\ FreshStore
ConnectStep == \E outcome \in Outcomes : Connect(outcome)
ImportStep == \E outcome \in Outcomes : ImportDone(outcome)
ReconnectStep == \E outcome \in Outcomes : ReconnectFire(outcome)
OpenStep == \E k \in DOMAIN socks : SockOpen(k)
RefuseStep == \E k \in DOMAIN socks : SockRefuse(k)
DropStep == \E k \in DOMAIN socks : SockDrop(k)
ClosedStep == \E k \in DOMAIN socks : SockClosed(k)
NextClient ==
    \/ ConnectStep
    \/ ImportStep
    \/ Disconnect
    \/ ReconnectStep
    \/ OpenStep
    \/ RefuseStep
    \/ DropStep
    \/ ClosedStep
    \/ HeartbeatTick
    \/ ClientSend
SpecClient == InitClient /\ [][NextClient]_vars
\* timers fire, the import resolves, close events are delivered, and the Hub
\* accepts connections
SpecClientFair ==
    /\ SpecClient
    /\ WF_vars(ReconnectStep)
    /\ WF_vars(ImportStep)
    /\ WF_vars(OpenStep)
    /\ WF_vars(ClosedStep)

\* the identity verbs, with the connection they open and close
InitIdentity ==
    InitState /\ native = TRUE /\ agentHistory = 0 /\ Unregistered /\ FreshStore
RegisterVerb == \E hubOk \in BOOLEAN, outcome \in Outcomes : HubRegister(hubOk, outcome)
RegisterChildVerb == \E hubOk \in BOOLEAN : HubRegisterChild(hubOk)
UnregisterVerb ==
    \E param \in {Undefined, SelfNodeId, ChildId}, hubOk \in BOOLEAN :
        HubUnregister(param, hubOk)
ReparentVerb ==
    \E param \in {Undefined, SelfNodeId, ChildId}, newParentId \in {Null, ChildId},
       hubOk \in BOOLEAN : HubReparent(param, newParentId, hubOk)
ConfigPatches ==
    {[nodeAlias |-> "alias"], [nodeId |-> "n9"], [token |-> "t9"]}
ConfigSetAny == \E patch \in ConfigPatches : HubConfigSet(patch)
NextIdentity ==
    \/ RegisterVerb
    \/ RegisterChildVerb
    \/ UnregisterVerb
    \/ ReparentVerb
    \/ ConfigSetAny
    \/ OpenStep
    \/ DropStep
    \/ ClosedStep
    \/ ReconnectStep
    \/ OtherInbound
SpecIdentity == InitIdentity /\ [][NextIdentity]_vars

----------------------------------------------------------------------------
(* What the log says about one QueuedTask object *)

Instances == DOMAIN tasks
RunningAcks(i) ==
    {k \in DOMAIN wsLog[i] : wsLog[i][k].type = "task_ack" /\ wsLog[i][k].status = "running"}
QueuedAcks(i) ==
    {k \in DOMAIN wsLog[i] : wsLog[i][k].type = "task_ack" /\ wsLog[i][k].status = "queued"}
Results(i) == {k \in DOMAIN wsLog[i] : wsLog[i][k].type = "result"}
InQueue(i) == i \in Range(queue)
InCompleted(i) == i \in Range(completed)
Addressed(i) ==
    \A k \in DOMAIN wsLog[i] :
        wsLog[i][k].id = tasks[i].taskId /\ wsLog[i][k].to = tasks[i].fromNodeId
Bit(b) == IF b THEN 1 ELSE 0

----------------------------------------------------------------------------
\* C1: in every reachable state the dispatching pool holds at most maxConcurrent
\* tasks, also after a task frame whose config.maxConcurrent changes the limit.
DispatchingWithinLimit == Cardinality(DOMAIN dispatching) <= maxConcurrent

\* C2: every taskId is in at most one of the waiting queue, the dispatching pool,
\* the inflight pool and the completed ring, also when the Hub delivers a taskId twice.
PoolsHolding(taskId) ==
    Bit(\E i \in Instances : InQueue(i) /\ tasks[i].taskId = taskId)
    + Bit(MapHas(dispatching, taskId))
    + Bit(MapHas(inflight, taskId))
    + Bit(\E i \in Instances : InCompleted(i) /\ tasks[i].taskId = taskId)
OnePoolPerTaskId == \A taskId \in Range(TaskIds) : PoolsHolding(taskId) <= 1

\* C3: for every QueuedTask that entered startTask, sendWS was called with exactly
\* one task_ack{running} and, once the task is finalized, with exactly one result,
\* both carrying its taskId and addressed to its fromNodeId, the ack before the
\* result, and the result only when the wait has set the terminal status (or the
\* dispatch has failed); before finalization there is no result.
AckThenResult ==
    \A i \in Instances :
        pc[i] # "none" =>
            /\ Cardinality(RunningAcks(i)) = 1
            /\ Cardinality(Results(i)) = Bit(pc[i] = "done")
            /\ Addressed(i)
            /\ \A a \in RunningAcks(i), r \in Results(i) : a < r
            /\ \A r \in Results(i) :
                 /\ tasks[i].status \in {"completed", "failed"}
                 /\ wsLog[i][r].success = (tasks[i].status = "completed")
                 /\ tasks[i].sessionKey => i \in sessionsDeleted
            /\ (tasks[i].status \in {"completed", "failed"}) = (pc[i] = "done")
\* reached: one task has failed in its dispatch and sent its result, another was
\* cancelled while running and is still waiting for its agent
AckThenResultWitness ==
    /\ \E i \in Instances :
         pc[i] = "done" /\ tasks[i].status = "failed" /\ ~tasks[i].sessionKey
         /\ Cardinality(Results(i)) = 1
    /\ \E i \in Instances :
         pc[i] = "wait" /\ i \in sessionsDeleted /\ Results(i) = {}

\* C4: every task that left the waiting queue or was started directly, and is
\* finalized or cancelled, has had exactly one result frame put on the socket,
\* whatever the connection did meanwhile.
ResultTransmitted ==
    \A i \in Instances :
        (pc[i] = "done" \/ tasks[i].status = "cancelled") =>
            Cardinality({r \in Results(i) : wsLog[i][r].tx}) = 1

\* the result frame TaskQueue.cancel is expected to hand to sendResult
CancelResult(i, err) ==
    [Frame("result", i, tasks[i].taskId, tasks[i].fromNodeId)
       EXCEPT !.success = FALSE, !.error = err, !.tx = connected]
\* a cancel of taskId, by frame or by RPC, while a task with that id is waiting
CancelOfWaiting(taskId) ==
    /\ QueueIndex(QState, taskId) > 0
    /\ Cancel(taskId) \/ TaskCancelRpc(taskId)
CancelContract(err) ==
    /\ \A taskId \in Range(TaskIds) :
         CancelOfWaiting(taskId) =>
             LET k == QueueIndex(QState, taskId)
                 i == queue[k]
             IN /\ queue' = SeqRemoveAt(queue, k)
                /\ tasks'[i].status = "cancelled"
                /\ wsLog'[i] = Append(wsLog[i], CancelResult(i, err))
                /\ \A j \in Instances \ {i} : wsLog'[j] = wsLog[j]
                /\ CancelReturn(QState, taskId)
                /\ pc'[i] = "none"
    /\ \A i \in Instances :
         tasks[i].status = "cancelled" =>
             /\ tasks'[i].status = "cancelled"
             /\ pc'[i] = "none"
             /\ wsLog'[i] = wsLog[i]
             /\ RunningAcks(i) = {}

SlotFreedAtDispatchReturn ==
    [][/\ \A i \in Instances :
            (pc[i] = "dispatch" /\ pc'[i] = "wait") =>
                /\ MapHas(inflight', tasks[i].taskId)
                /\ inflight'[tasks[i].taskId] = i
                /\ \A t \in DOMAIN dispatching' : dispatching'[t] # i
                /\ tasks'[i].status = "running"
                /\ (limits = {1} /\ queue # <<>>) =>
                       LET j == Head(queue) IN
                       /\ queue' = Tail(queue)
                       /\ pc'[j] = "dispatch"
                       /\ tasks'[j].status = "running"
                       /\ wsLog'[j] = Append(wsLog[j],
                              [Frame("task_ack", j, tasks[j].taskId, tasks[j].fromNodeId)
                                 EXCEPT !.status = "running", !.tx = connected])
       /\ (Len(tasks') = Len(tasks) + 1 /\ limits' = {1}
           /\ DOMAIN dispatching = {} /\ DOMAIN inflight # {}) =>
                pc'[Len(tasks')] = "dispatch" /\ queue' = queue
      ]_vars
\* reached: limit 1, T1 inflight and still running, T2 (which had to wait) dispatching
SlotFreedWitness ==
    /\ limits = {1}
    /\ Len(tasks) >= 2
    /\ pc[1] = "wait" /\ tasks[1].status = "running"
    /\ pc[2] = "dispatch" /\ QueuedAcks(2) # {} /\ RunningAcks(2) # {}

\* the scenario of C7: the limit has been 1 throughout, T2 arrived while T1 held
\* the slot (so T2 was acknowledged as queued) and nobody cancelled T2
BackToBack ==
    /\ limits = {1}
    /\ Len(tasks) >= 2
    /\ tasks[1].taskId # tasks[2].taskId
    /\ QueuedAcks(2) # {}
    /\ tasks[2].status # "cancelled"

\* C7 as stated: with maxConcurrent = 1 and T1, T2 received back-to-back, T2 gets
\* task_ack{queued, position: 1}, T2's task_ack{running} is emitted only after T1
\* is terminal, and T1's result is emitted before T2's.
SerialBackToBack ==
    BackToBack =>
        /\ \A k \in QueuedAcks(2) : wsLog[2][k].position = 1
        /\ RunningAcks(2) # {} => tasks[1].status \in {"completed", "failed", "cancelled"}
        /\ Results(2) # {} => Results(1) # {}

\* C7: with maxConcurrent = 1 and T1, T2 received back-to-back, T2 gets
\* task_ack{queued, position: 1}; T2 is started, with its task_ack{running}, in
\* the step in which T1 leaves the dispatching pool (its dispatch returned or
\* failed), which may be before T1 is terminal.
StartAfterDispatchBackToBack ==
    [][/\ (Len(tasks) = 1 /\ Len(tasks') = 2 /\ limits' = {1} /\ pc[1] = "dispatch") =>
            /\ queue' = <<2>>
            /\ pc'[2] = "none"
            /\ wsLog'[2] = <<[Frame("task_ack", 2, tasks'[2].taskId, tasks'[2].fromNodeId)
                                EXCEPT !.status = "queued", !.position = 1,
                                       !.tx = connected]>>
       /\ (BackToBack /\ pc[2] = "none" /\ pc'[2] # "none") =>
            /\ pc[1] = "dispatch"
            /\ pc'[1] \in {"wait", "done"}
            /\ Cardinality(RunningAcks(2)) = 0
            /\ wsLog'[2] = Append(wsLog[2],
                   [Frame("task_ack", 2, tasks[2].taskId, tasks[2].fromNodeId)
                      EXCEPT !.status = "running", !.tx = connected])
      ]_vars
\* reached: T2 has sent its result while T1 is still waiting for its agent
StartAfterDispatchWitness ==
    /\ BackToBack
    /\ pc[1] = "wait" /\ Results(1) = {}
    /\ pc[2] = "done" /\ Cardinality(Results(2)) = 1

FifoStart ==
    \A i, j \in Instances : (i < j /\ InQueue(i)) => pc[j] = "none"

\* the total order of StoredTask statuses
Rank(status) ==
    CASE status = "sent" -> 0
      [] status = "queued" -> 1
      [] status = "running" -> 2
      [] OTHER -> 3

\* C10: no step lowers the status of a stored task along
\* sent < queued < running < {completed, failed, cancelled, timeout}.
StatusNeverRegresses ==
    [][\A k \in DOMAIN stored :
          LET m == FindTask(stored', stored[k].taskId)
          IN m > 0 => Rank(stored'[m].status) >= Rank(stored[k].status)
      ]_vars

\* the taskIds of the stored records, in store order
StoredIds(st) == [k \in DOMAIN st |-> st[k].taskId]

\* C11: the store never holds two records with one taskId; a send puts exactly one
\* new record (with the fresh taskId) in front, and every other step (ack, status,
\* result, cancel, local completion) leaves the sequence of taskIds as it was.
OneRecordPerTaskId ==
    [][/\ \A k, m \in DOMAIN stored' : stored'[k].taskId = stored'[m].taskId => k = m
       /\ IF nextUuid' # nextUuid
          THEN StoredIds(stored') = <<Uuids[nextUuid]>> \o StoredIds(stored)
          ELSE StoredIds(stored') = StoredIds(stored)
      ]_vars
\* reached: two records, one updated by a result, the other by a cancel
OneRecordWitness ==
    /\ Len(stored) = 2
    /\ \E k \in DOMAIN stored : stored[k].status \in {"completed", "failed"}
    /\ \E k \in DOMAIN stored : stored[k].status = "cancelled"

\* the task frames in the sender's log for one taskId
TaskFrames(taskId) ==
    {k \in DOMAIN sentLog : sentLog[k].type = "task" /\ sentLog[k].id = taskId}

\* C12: on a send, a task frame goes to sendWS exactly when it is not the case that
\* nodeId is this node and selfTaskMode is local; in that case the record has
\* source = local, no frame is sent and a local run is started, which ends in
\* exactly one terminal update (completed or failed) of that record; every local
\* run started does end.
SelfLocalOrHubFrame ==
    /\ [][/\ nextUuid' # nextUuid =>
               LET taskId == Uuids[nextUuid]
                   rec == stored'[1]
                   local == rec.targetNodeId = SelfNodeId /\ selfTaskMode = "local"
               IN /\ rec.taskId = taskId /\ rec.status = "sent"
                  /\ rec.source = IF local THEN "local" ELSE "remote"
                  /\ localRuns' = IF local THEN localRuns \cup {taskId} ELSE localRuns
                  /\ sentLog' = IF local THEN sentLog
                                ELSE Append(sentLog,
                                       [Frame("task", 0, taskId, rec.targetNodeId)
                                          EXCEPT !.tx = connected])
          /\ \A taskId \in localRuns \ localRuns' :
               LET k == FindTask(stored', taskId)
               IN /\ k > 0
                  /\ stored'[k].status \in {"completed", "failed"}
                  /\ stored'[k].completedAt # NotSet
                  /\ stored'[k].source = "local"
          /\ \A taskId \in localRuns' \ localRuns : nextUuid' # nextUuid /\ taskId = Uuids[nextUuid]
          /\ \A k \in DOMAIN stored : stored[k].source = "local" => TaskFrames(stored[k].taskId) = {}
         ]_vars
    /\ \A taskId \in Range(Uuids) : (taskId \in localRuns) ~> (taskId \notin localRuns)
\* reached: a self-targeted send in hub mode put a frame on the log, a self-targeted
\* send in local mode did not and its local run has ended
SelfLocalWitness ==
    /\ \E k \in DOMAIN stored :
         /\ stored[k].targetNodeId = SelfNodeId /\ stored[k].source = "remote"
         /\ TaskFrames(stored[k].taskId) # {}
    /\ \E k \in DOMAIN stored :
         /\ stored[k].source = "local" /\ stored[k].completedAt # NotSet
         /\ stored[k].taskId \notin localRuns

\* C13: in every reachable store, hub.task.cancel on a taskId whose record is
\* sent, queued or running, whatever its source, takes the branch that sends
\* task_cancel and sets the record to cancelled; on a terminal or absent record
\* it does not take it.
CancelRpcCoversActive ==
    \A taskId \in SentIds :
        LET k == FindTask(stored, taskId) IN
        IF k > 0 /\ stored[k].status \in ActiveStatuses
        THEN /\ RemoteCancelApplies(stored, taskId)
             /\ UpdateCancelled(stored, taskId)[k].status = "cancelled"
        ELSE ~RemoteCancelApplies(stored, taskId)

\* C14: a hub.task.send issued while the socket is not connected is answered with
\* ok = false and leaves the store unchanged; no record is in status sent for a
\* task frame that was never transmitted.
SendFailsWhenDisconnected ==
    [][/\ (Len(sendReplies') > Len(sendReplies) /\ ~connected) =>
            /\ ~sendReplies'[Len(sendReplies')].ok
            /\ stored' = stored
       /\ \A k \in DOMAIN stored' :
            (stored'[k].source = "remote" /\ stored'[k].status = "sent") =>
                \E f \in DOMAIN sentLog' :
                    /\ sentLog'[f].type = "task" /\ sentLog'[f].id = stored'[k].taskId
                    /\ sentLog'[f].tx
      ]_vars

\* C15: every task that obtained a sessionKey and is finalized (completed or
\* failed, also after a cancel while it ran) has had sessions.delete issued for
\* its session, at the latest when its wait returned; a task without a sessionKey
\* never has.
SessionDeletedAtTerminal ==
    [][\A i \in DOMAIN tasks' :
          /\ (pc'[i] = "done" /\ tasks'[i].sessionKey) => i \in sessionsDeleted'
          /\ (i \in DOMAIN tasks /\ pc[i] = "wait" /\ pc'[i] = "done") =>
                 /\ tasks'[i].status \in {"completed", "failed"}
                 /\ i \in sessionsDeleted'
          /\ i \in sessionsDeleted' => tasks'[i].sessionKey
      ]_vars
\* reached: one task completed, another failed in its wait, both with a session
SessionDeletedWitness ==
    /\ \E i \in Instances :
         pc[i] = "done" /\ tasks[i].sessionKey /\ tasks[i].status = "completed"
    /\ \E i \in Instances :
         pc[i] = "done" /\ tasks[i].sessionKey /\ tasks[i].status = "failed"

\* C16: from disconnect() until the next connect() call (that is, while
\* intentionallyClosed is set) the client is not connected, no reconnect timer is
\* armed and no socket is created.
StaysDisconnected ==
    [][intentionallyClosed' =>
          /\ ~connected'
          /\ timeouts' = 0 /\ ~reconnectTimer'
          /\ intentionallyClosed => Len(socks') = Len(socks)
      ]_vars

\* C17: once a socket has closed and the close was not intentional, the client
\* gets connected again with its heartbeat timer running, unless disconnect() is
\* called first; the Hub accepts connections but for finitely many failures.
ReconnectsAfterClose ==
    (~connected /\ ~intentionallyClosed /\ \E k \in DOMAIN socks : socks[k] = "closed")
        ~> ((connected /\ heartbeatTimer /\ intervals = 1) \/ intentionallyClosed)
\* reached: the first socket is closed, a later one is the current socket and
\* open, the client connected with its heartbeat
ReconnectsWitness ==
    /\ Len(socks) >= 2
    /\ socks[1] = "closed"
    /\ ws > 1 /\ socks[ws] = "open"
    /\ connected /\ heartbeatTimer /\ ~intentionallyClosed

\* C18: at most one reconnect timer is armed, and it is the one the field holds;
\* a timer is armed only when none is pending and disconnect() is not in force;
\* a timer that fires is gone and leads to at most one new socket (or one
\* suspended connect()).
OneReconnectTimer ==
    [][/\ timeouts' <= 1
       /\ timeouts' = Bit(reconnectTimer')
       /\ (reconnectTimer' /\ ~reconnectTimer) => ~intentionallyClosed'
       /\ intentionallyClosed' => timeouts' <= timeouts
       /\ Len(socks') + importing' <= Len(socks) + importing + 1
      ]_vars
\* reached: the socket constructor threw twice in a row; the second
\* scheduleReconnect found the timer of the first pending
OneReconnectWitness ==
    /\ native /\ socks = <<>> /\ ops >= 2
    /\ reconnectTimer /\ timeouts = 1 /\ ~intentionallyClosed

\* C19: the heartbeat timer is armed exactly while the client is connected, there
\* is never more than one, and a heartbeat frame is put on the socket only while
\* the client is connected.
HeartbeatWhileConnected ==
    [][/\ heartbeatTimer' = connected'
       /\ intervals' = Bit(heartbeatTimer')
       /\ Len(clientLog') > Len(clientLog) =>
              LET f == clientLog'[Len(clientLog')]
              IN (f.type = "heartbeat" /\ f.tx) => (connected /\ ws # 0)
      ]_vars
\* reached: a heartbeat went out, then the socket closed and the timer was cleared
HeartbeatWitness ==
    /\ \E k \in DOMAIN clientLog : clientLog[k].type = "heartbeat" /\ clientLog[k].tx
    /\ ~connected /\ ~heartbeatTimer /\ intervals = 0
    /\ \E k \in DOMAIN socks : socks[k] = "closed"

\* C20: sendWS while not connected puts nothing on the socket and changes nothing
\* of the client; a frame once dropped is never put on the socket later, whatever
\* happens to the connection.
DroppedWhenDisconnected ==
    [][/\ (Len(clientLog') > Len(clientLog) /\ ~(ws # 0 /\ connected)) =>
            /\ ~clientLog'[Len(clientLog')].tx
            /\ UNCHANGED <<socks, ws, connected, intentionallyClosed, reconnectTimer,
                           timeouts, heartbeatTimer, intervals, importing>>
       /\ \A k \in DOMAIN clientLog : clientLog'[k] = clientLog[k]
      ]_vars
\* reached: a frame was dropped, the client connected, and the next frame went out
DroppedWitness ==
    /\ Len(clientLog) = 2
    /\ ~clientLog[1].tx /\ clientLog[2].tx
    /\ connected

----------------------------------------------------------------------------
(* Lifecycle broadcasts *)

\* a system broadcast carrying one of the seven lifecycle actions
IsLifecycle(msg) == msg.channel = "system" /\ msg.action \in LifecycleActions

\* C21: changeSeq never decreases; every observed system broadcast with a
\* lifecycle action (node_online, node_offline, child_registered,
\* child_unregistered, child_departed, child_arrived, reparented) increases it
\* by exactly 1 and empties the node cache; no other inbound frame changes it.
ChangeSeqCountsLifecycle ==
    [][/\ changeSeq' >= changeSeq
       /\ \A msg \in BroadcastInputs :
             (IsLifecycle(msg) /\ BroadcastFrame(msg))
                 => (changeSeq' = changeSeq + 1 /\ nodesCache' = {})
       /\ changeSeq' # changeSeq
             => \E msg \in BroadcastInputs : IsLifecycle(msg) /\ BroadcastFrame(msg)]_vars

\* the node_online and node_offline frames that name their node
OnlineFrames ==
    {msg \in BroadcastInputs :
        msg.channel = "system" /\ msg.action = "node_online" /\ msg.node # NoNodeId}
OfflineFrames ==
    {msg \in BroadcastInputs :
        msg.channel = "system" /\ msg.action = "node_offline" /\ msg.nodeId # NoNodeId}

\* what one node_online / node_offline frame about nodeId does: the counter,
\* the callback, the node-event store and the fan-out that follows the record
NodeEffect(cb, event, nodeId) ==
    /\ changeSeq' = changeSeq + 1
    /\ nodesCache' = {}
    /\ nodeCalls' = Append(nodeCalls, [cb |-> cb, nodeId |-> nodeId])
    /\ nodeEvents' = <<[nodeId |-> nodeId, event |-> event]>> \o nodeEvents
    /\ MapHas(fanout', nodeId)
    /\ fanout'[nodeId] = [n |-> IF MapHas(fanout, nodeId) THEN fanout[nodeId].n + 1 ELSE 1,
                          event |-> "hub.node.event", status |-> event]

----------------------------------------------------------------------------
(* Incoming chat *)

\* the messages of the delta frames of a log, in emission order
RECURSIVE DeltaMessages(_)
DeltaMessages(log) ==
    IF log = <<>> THEN <<>>
    ELSE (IF Head(log).role = "delta" THEN Head(log).messages ELSE <<>>)
         \o DeltaMessages(Tail(log))

\* the frames of the run that carry done: true
DoneFrames == {k \in DOMAIN chatLog : chatLog[k].done}
\* the history reply of the run, if it has sent one
HistoryReplies == {k \in DoneFrames : chatLog[k].content = "-"}
\* what chat.history returns for the session once the run is over
FinalHistory == FormatMessages(ChatHistory(agentHistory, HistoryLimit), chatConfig.whole)

\* C23 as claimed: for every chat run that ends with the history reply, the
\* messages of all delta frames, in emission order, followed by the messages
\* of the terminal done frame equal the agent's final chat.history, with no
\* message duplicated and none missing.
DeltasThenFinalIsHistory ==
    \A k \in HistoryReplies :
        chatPc = "done" => DeltaMessages(chatLog) \o chatLog[k].messages = FinalHistory

\* C23: for every chat run that ends with the history reply, the messages of
\* the terminal done frame alone equal the agent's final chat.history (the
\* latest 30 messages, formatted), in order, none duplicated, none missing.
FinalIsHistory ==
    \A k \in HistoryReplies :
        chatPc = "done" => chatLog[k].messages = FinalHistory

\* a run that has sent deltas and then its history reply
FinalIsHistoryWitness ==
    /\ chatPc = "done"
    /\ agentAdded >= 2
    /\ HistoryReplies # {}
    /\ DeltaMessages(chatLog) # <<>>

\* C24: a chat run sends exactly one frame with done: true, with replyTo = the
\* id of the chat frame it answers (the history reply, or the error reply when
\* a call threw), and no delta frame of the run is sent after it, a harvest
\* tick still awaiting chat.history when the agent wait returned included.
OneDoneFrameLast ==
    /\ Cardinality(DoneFrames) <= 1
    /\ chatPc = "done" => Cardinality(DoneFrames) = 1
    /\ \A k \in DoneFrames :
          /\ chatLog[k].role = "assistant"
          /\ chatLog[k].replyTo = ChatId
          /\ \A j \in DOMAIN chatLog : j > k => chatLog[j].role # "delta"

\* the history positions the delta frames have sent, in emission order
DeltaPositions ==
    LET sent == DeltaMessages(chatLog) IN [k \in DOMAIN sent |-> sent[k].pos]

\* C25: within one chat run lastSentCount never decreases, and the delta
\* frames taken together send consecutive history positions, each at most
\* once and none skipped, for overlapping harvest ticks and for histories that
\* reach the chat.history limit or hold messages from earlier turns.
DeltasCoverHistoryOnce ==
    /\ [][lastSentCount' >= lastSentCount]_vars
    /\ [](\A k \in DOMAIN DeltaPositions :
             k > 1 => DeltaPositions[k] = DeltaPositions[k - 1] + 1)
----------------------------------------------------------------------------
\* the identity before any register and after an unregister of self
NoIdentity == [f \in IdentityFields |-> Undefined]

\* the verbs that may change the identity
IdentityVerbs == {"register", "reparent", "unregister"}

\* C26: a successful unregister of self after a successful register leaves
\* nodeId, token, clusterId and parentId empty, the client disconnected and
\* no reconnect timer armed; an unregister repeated right after it replies
\* ok = false with a message and changes neither the identity nor the config
\* file, the Hub's records or any store.
UnregisterLeavesNoIdentity ==
    [][verbs' # verbs /\ lastReply'.verb = "unregister" =>
        /\ (lastReply'.ok /\ lastReply'.nodeId = config.nodeId) =>
              /\ config' = NoIdentity
              /\ ~connected'
              /\ ~reconnectTimer'
              /\ ws' = 0
        /\ (/\ lastReply = Reply("unregister", TRUE, SelfNodeId)
            /\ config = NoIdentity
            /\ lastReply'.nodeId \in {Undefined, SelfNodeId}) =>
              /\ ~lastReply'.ok
              /\ lastReply'.message
              /\ UNCHANGED <<config, configFile, hubNodes, storeVars, nodeEvents,
                             received, fanout>>]_vars

\* register, unregister, unregister: the third verb has failed
UnregisterLeavesNoIdentityWitness ==
    /\ verbs = 3
    /\ lastReply.verb = "unregister"
    /\ ~lastReply.ok
    /\ lastReply.nodeId \in {Undefined, SelfNodeId}
    /\ config = NoIdentity
    /\ configFile.nodeId = SelfNodeId
    /\ hubNodes = {}

\* C27: after each successful register, reparent or unregister the nodeId,
\* token, clusterId and parentId of the config file are those in memory.
ConfigFileIsIdentity ==
    [][(verbs' # verbs /\ lastReply'.ok /\ lastReply'.verb \in IdentityVerbs) =>
        configFile' = config']_vars

\* C28: nodeId, token and clusterId change only in a successful register,
\* reparent or unregister.
OnlyIdentityVerbsChangeIdentity ==
    [][(\E f \in {"nodeId", "token", "clusterId"} : config'[f] # config[f]) =>
        /\ verbs' = verbs + 1
        /\ lastReply'.ok
        /\ lastReply'.verb \in IdentityVerbs]_vars

\* the status of the sent task taskId in the store, "none" without a record
SentStatus(st, taskId) ==
    LET k == FindTask(st, taskId) IN IF k = 0 THEN "none" ELSE st[k].status

\* the number of hub.task.update broadcasts for taskId
TaskUpdates(log, taskId) == IF MapHas(log, taskId) THEN log[taskId].n ELSE 0

\* C29 (sent tasks): each step that creates the record of a sent task or
\* changes its status makes one hub.task.update broadcast that carries the
\* task with its new status.
TaskChangeIsBroadcast ==
    [][\A taskId \in Range(Uuids) :
          (/\ SentStatus(stored', taskId) # "none"
           /\ SentStatus(stored', taskId) # SentStatus(stored, taskId)) =>
             /\ TaskUpdates(fanout', taskId) = TaskUpdates(fanout, taskId) + 1
             /\ fanout'[taskId].event = "hub.task.update"
             /\ fanout'[taskId].status = SentStatus(stored', taskId)]_vars

\* C30: every inbound task has a record in the received-task store, keyed by
\* its taskId and carrying the status the task has reached.
ReceivedTaskIsRecorded ==
    \A i \in DOMAIN tasks :
        \E k \in DOMAIN received :
            /\ received[k].taskId = tasks[i].taskId
            /\ received[k].status = tasks[i].status

----------------------------------------------------------------------------
\* C31: the sent-task store holds at most 200 tasks, the latest first: a
\* recording into a store of 200 drops the oldest task (the last one) and no
\* other, a recording into a smaller store drops none, and no other step
\* changes which tasks are held or their order.
StoreKeepsLatest200 ==
    /\ [][IF nextUuid' # nextUuid
          THEN /\ stored'[1].taskId = Uuids[nextUuid]
               /\ Tail(stored') = IF Len(stored) = MaxHistory
                                  THEN SubSeq(stored, 1, MaxHistory - 1)
                                  ELSE stored
          ELSE StoredIds(stored') = StoredIds(stored)]_vars
    /\ [](Len(stored) <= MaxHistory)

\* two recordings into a store of 200: the two oldest tasks are gone
StoreKeepsLatest200Witness ==
    /\ Len(stored) = MaxHistory
    /\ stored[1].taskId = Uuids[2]
    /\ stored[2].taskId = Uuids[1]
    /\ stored[MaxHistory].taskId = ToString(3)

\* the set of taskIds in the store
IdSet(st) == {st[k].taskId : k \in DOMAIN st}

\* the record of taskId in the store
RecordOf(st, taskId) == st[FindTask(st, taskId)]

\* C32: task.clear removes only tasks that are completed, failed or cancelled
\* with completedAt (0 when undefined) at or before the cutoff, leaves every
\* other task as it was and replies with the number of tasks removed; a
\* second clear with the same cutoff finds nothing to remove.
ClearRemovesFinishedOnly ==
    /\ [][lastClear' # lastClear =>
            /\ IdSet(stored') \subseteq IdSet(stored)
            /\ \A taskId \in IdSet(stored') :
                   RecordOf(stored', taskId) = RecordOf(stored, taskId)
            /\ \A taskId \in IdSet(stored) \ IdSet(stored') :
                   /\ RecordOf(stored, taskId).status \in TerminalStatuses
                   /\ RecordOf(stored, taskId).status \notin ActiveStatuses
                   /\ RecordOf(stored, taskId).completedAt <= lastClear'.cutoff
            /\ lastClear'.cleared = Cardinality(IdSet(stored) \ IdSet(stored'))]_vars
    /\ [](\A cutoff \in 1..MaxClock :
             LET once == ClearCompleted(stored, cutoff)
             IN ClearCompleted(once, cutoff) = once)

\* a clear has removed one of two tasks: the other one is still running
ClearRemovesFinishedOnlyWitness ==
    /\ lastClear.cleared = 1
    /\ Len(stored) = 1
    /\ stored[1].status = "running"

\* C35: the status of every StoredTask is one of sent, queued, running,
\* completed, failed, cancelled, timeout (an ack frame whose payload.status is
\* missing or unknown leaves the record as it was).
StatusIsKnown == \A k \in DOMAIN stored : stored[k].status \in Statuses

\* C38: a StoredTask in a terminal status keeps its status and its
\* completedAt for as long as the store holds it.
TerminalIsFinal ==
    [][\A taskId \in IdSet(stored) \cap IdSet(stored') :
          RecordOf(stored, taskId).status \in TerminalStatuses =>
             /\ RecordOf(stored', taskId).status = RecordOf(stored, taskId).status
             /\ RecordOf(stored', taskId).completedAt =
                    RecordOf(stored, taskId).completedAt]_vars


\* the messages chats/<nodeId>.json holds; a missing file holds none
FileHistory(nodeId) ==
    IF MapHas(chatFiles, nodeId) THEN chatFiles[nodeId] ELSE <<>>
\* no save is pending for any file, and every file holds what its store holds
AllSaved ==
    /\ saveTimer = 0 /\ tasksFile = stored
    /\ eventTimer = 0 /\ eventsFile = nodeEvents
    /\ \A nodeId \in PeerIds :
          chatTimers[nodeId] = 0 /\ FileHistory(nodeId) = GetHistory(chats, nodeId)

ClearedChatStaysGone ==
    \A nodeId \in PeerIds :
        ~MapHas(chats, nodeId) =>
            ~MapHas(chatFiles, nodeId) /\ GetHistory(chats, nodeId) = <<>>

\* QueuedTask object i is the one the dispatching or the inflight Map holds
InRunningPool(i) ==
    \/ MapHas(dispatching, tasks[i].taskId) /\ dispatching[tasks[i].taskId] = i
    \/ MapHas(inflight, tasks[i].taskId) /\ inflight[tasks[i].taskId] = i
\* taskId is in none of the waiting queue, the dispatching and the inflight pool
InNoPool(taskId) ==
    /\ QueueIndex(QState, taskId) = 0
    /\ ~MapHas(dispatching, taskId)
    /\ ~MapHas(inflight, taskId)

\* C34: cancel(taskId) for a task held in the dispatching or inflight pool
\* moves no task, changes no status and hands no frame to sendWS; it returns
\* true and fires sessions.delete for that task exactly when the task has a
\* sessionKey, and returns false when it has none.  For a taskId in no pool
\* it returns false and changes nothing.
CancelOfRunningTask ==
    /\ \A i \in DOMAIN tasks :
          InRunningPool(i) =>
             /\ CancelQueue(QState, connected, tasks[i].taskId) = QState
             /\ CancelReturn(QState, tasks[i].taskId) = tasks[i].sessionKey
             /\ CancelDeletes(QState, tasks[i].taskId) =
                    IF tasks[i].sessionKey THEN {i} ELSE {}
    /\ \A taskId \in Range(TaskIds) :
          InNoPool(taskId) =>
             /\ CancelQueue(QState, connected, taskId) = QState
             /\ ~CancelReturn(QState, taskId)
             /\ CancelDeletes(QState, taskId) = {}

\* QueuedTask object i has finished its run: status completed or failed, and
\* its result frame was handed to sendWS
Settled(i) ==
    /\ i \in DOMAIN tasks
    /\ tasks[i].status \in {"completed", "failed"}
    /\ Results(i) # {}
\* object i was cancelled while it was waiting
CancelledWaiting(i) == i \in DOMAIN tasks /\ tasks[i].status = "cancelled"

LiveSockets == {k \in DOMAIN socks : socks[k] \in {"connecting", "open"}}

\* C39: at most one Hub WebSocket is connecting or open at any time, and the
\* connected flag is true exactly when the client's current socket is open,
\* whatever the order of connect(), disconnect(), reconnect-timer firings and
\* socket open / close events.
OneSocketAndFlag ==
    /\ Cardinality(LiveSockets) <= 1
    /\ connected <=> (ws # 0 /\ socks[ws] = "open")

\* C40: a fetchNodes call that is not forced never returns a node list that
\* was requested from the Hub before a lifecycle broadcast handled ahead of
\* the call, a list whose request was in flight when the broadcast came in
\* included.
NoStaleNodes ==
    ~fetchLog.last.force => fetchLog.last.requested >= fetchLog.last.called
====
